---- MODULE Spec2Model ----
(***************************************************************************)
(* Model of the WBWT codec of quick-note (src/lib/wbwt.ts, here            *)
(* src/unnamed/part_001): tokenizer, normalizer, dictionary, cyclic BWT,   *)
(* move-to-front, RUNA/RUNB, adaptive arithmetic coder over a Fenwick      *)
(* model, and the framed container with its legacy versions.               *)
(*                                                                         *)
(* Strings are sequences of code points (all characters of the model are   *)
(* in the BMP, so a code point is one UTF-16 code unit).  Byte buffers are *)
(* sequences of 0..255.  Arrays are 1-based sequences; the code's 0-based  *)
(* index i is position i + 1.                                              *)
(*                                                                         *)
(* TLC integers are 32-bit signed, so the coder's unsigned 32-bit          *)
(* registers and its 47-bit products are kept as pairs <<hi, lo>> of       *)
(* 16-bit limbs (value hi * 2^16 + lo).                                    *)
(***************************************************************************)
EXTENDS Integers, Sequences, FiniteSets, TLC

VARIABLES pc, text, payload, frame, origin, decoded, output, bwtIn, bwtOut, bwtBack,
          alphabet, seqIn, seqMid, seqOut, streams, assigned,
          rawTokens, normTokens, rendered, hash, info, note,
          fenwick, lookup, encoder, decoder,
          clock, timers, debounceRef, textRef, locationHash, triggeredAt, hashEvents

\* The variables of the single stages: an alphabet size with the input, the
\* coded form and the decoded form of a number sequence; two token streams
\* with their tokensToIds results; the tokens of text, raw and normalized,
\* and the text rendered from them.
stageVars ==
    <<alphabet, seqIn, seqMid, seqOut, streams, assigned, rawTokens, normTokens, rendered>>

\* The variables of the URL hash: the hash built from text, the payload
\* extracted from it and the note decoded from that.
hashVars == <<hash, info, note>>

\* The variables of the adaptive model and of the coder run symbol by
\* symbol: a FenwickTree with the last findByCumulative call on it, and the
\* encoder and the decoder, each with its own model.
coderVars == <<fenwick, lookup, encoder, decoder>>

\* The variables of useHashSync: the time in ms, the timers set and not
\* cleared, debounceRef.current, textRef.current and window.location.hash.
syncVars ==
    <<clock, timers, debounceRef, textRef, locationHash, triggeredAt, hashEvents>>

vars ==
    <<pc, text, payload, frame, origin, decoded, output, bwtIn, bwtOut, bwtBack, stageVars,
      hashVars, coderVars, syncVars>>

(***************************************************************************)
(* Generic helpers                                                         *)
(***************************************************************************)
Min(a, b) == IF a < b THEN a ELSE b

Max(a, b) == IF a > b THEN a ELSE b

RECURSIVE Pow2(_)
Pow2(n) == IF n = 0 THEN 1 ELSE 2 * Pow2(n - 1)

RECURSIVE Concat(_)
\* Array.prototype.join(''): the concatenation of a sequence of strings.
Concat(ss) == IF ss = <<>> THEN <<>> ELSE Head(ss) \o Concat(Tail(ss))

\* String.prototype.repeat for a one-character string and a count >= 0.
Repeat(c, n) == [i \in 1..n |-> c]

\* Subarray/slice [from, to) of a 0-based array, clamped to its length.
Slice(s, from, to) == SubSeq(s, Min(from, Len(s)) + 1, Min(to, Len(s)))

\* Reading bytes[i] in a bitwise expression: undefined (out of range) acts as 0.
ByteAt(bytes, i) == IF i >= 0 /\ i < Len(bytes) THEN bytes[i + 1] ELSE 0

RECURSIVE StrLess(_, _)
\* a < b for strings: comparison by UTF-16 code units (Array.prototype.sort default).
StrLess(a, b) ==
    IF b = <<>> THEN FALSE
    ELSE IF a = <<>> THEN TRUE
    ELSE IF a[1] # b[1] THEN a[1] < b[1]
    ELSE StrLess(Tail(a), Tail(b))

(***************************************************************************)
(* Characters                                                              *)
(***************************************************************************)
CONTROL_PREFIX == 31

ChSpace == 32

ChNewline == 10

ChTab == 9

ChHyphen == 45

ChApostrophe == 39

ChPlus == 43

ChMinus == 45

ChBom == 65279

ChReplacement == 65533

IsUpper(c) == c >= 65 /\ c <= 90

IsLower(c) == c >= 97 /\ c <= 122

IsLetter(c) == IsUpper(c) \/ IsLower(c)

IsDigit(c) == c >= 48 /\ c <= 57

IsAlnum(c) == IsLetter(c) \/ IsDigit(c)

\* The regular expression class \s (WhiteSpace and LineTerminator of ECMAScript).
IsSpace(c) ==
    \/ c \in {9, 10, 11, 12, 13, 32, 160, 5760, 8232, 8233, 8239, 8287, 12288, 65279}
    \/ (c >= 8192 /\ c <= 8202)

IsJoiner(c) == c = ChApostrophe \/ c = ChHyphen

\* toLowerCase / toUpperCase of one character (the model's cased characters are ASCII).
LowerChar(c) == IF IsUpper(c) THEN c + 32 ELSE c

UpperChar(c) == IF IsLower(c) THEN c - 32 ELSE c

ToLower(s) == [i \in 1..Len(s) |-> LowerChar(s[i])]

ToUpper(s) == [i \in 1..Len(s) |-> UpperChar(s[i])]

TOKEN_WS_SPACE == <<CONTROL_PREFIX, 115>>

TOKEN_WS_NEWLINE == <<CONTROL_PREFIX, 110>>

TOKEN_WS_TAB == <<CONTROL_PREFIX, 116>>

TOKEN_NUM == <<CONTROL_PREFIX, 100>>

TOKEN_CASE_UPPER == <<CONTROL_PREFIX, 117>>

TOKEN_CASE_TITLE == <<CONTROL_PREFIX, 99>>

TOKEN_ESCAPE == <<CONTROL_PREFIX, 101>>

(***************************************************************************)
(* Tokenization                                                            *)
(***************************************************************************)
\* The three character classes of TOKEN_PATTERN.
CharClass(c) ==
    IF IsAlnum(c) THEN "alnum" ELSE IF IsSpace(c) THEN "space" ELSE "other"

RECURSIVE RunEnd(_, _, _)
\* Last position of the maximal run of characters of class cls starting at i.
RunEnd(s, i, cls) ==
    IF i < Len(s) /\ CharClass(s[i + 1]) = cls THEN RunEnd(s, i + 1, cls) ELSE i

RECURSIVE WordEnd(_, _)
\* Last position of [A-Za-z0-9]+(?:['-][A-Za-z0-9]+)* matched greedily at i.
WordEnd(s, i) ==
    LET j == RunEnd(s, i, "alnum")
    IN IF j + 2 <= Len(s) /\ IsJoiner(s[j + 1]) /\ IsAlnum(s[j + 2])
       THEN WordEnd(s, j + 2)
       ELSE j

\* Last position of the TOKEN_PATTERN match that starts at position i: a word,
\* else a run of [^\sA-Za-z0-9], else a run of \s.
TokenEnd(s, i) ==
    IF IsAlnum(s[i]) THEN WordEnd(s, i) ELSE RunEnd(s, i, CharClass(s[i]))

RECURSIVE MatchAll(_, _)
MatchAll(s, i) ==
    IF i > Len(s) THEN <<>>
    ELSE LET j == TokenEnd(s, i)
         IN <<SubSeq(s, i, j)>> \o MatchAll(s, j + 1)

\* A tokenizer that skips white space, as a split on \\s+ would.
tokenizeWords(t) == SelectSeq(MatchAll(t, 1), LAMBDA token : ~IsSpace(token[1]))

tokenize(t) == IF t = <<>> THEN <<>> ELSE MatchAll(t, 1)

(***************************************************************************)
(* Normalization                                                           *)
(***************************************************************************)
AllOf(s, c) == s # <<>> /\ \A i \in 1..Len(s) : s[i] = c

\* NUMBER_PATTERN /^\d+$/
IsNumberToken(s) == s # <<>> /\ \A i \in 1..Len(s) : IsDigit(s[i])

\* WORD_PATTERN /^[A-Za-z]+(?:['-][A-Za-z]+)*$/
IsWordToken(s) ==
    /\ s # <<>>
    /\ IsLetter(s[1])
    /\ IsLetter(s[Len(s)])
    /\ \A i \in 1..Len(s) : IsLetter(s[i]) \/ IsJoiner(s[i])
    /\ \A i \in 1..(Len(s) - 1) : ~(IsJoiner(s[i]) /\ IsJoiner(s[i + 1]))

Base36Digit(d) == IF d < 10 THEN 48 + d ELSE 87 + d

\* A run length that is always written as 1.
ToBase36One(n) == <<Base36Digit(1)>>

RECURSIVE ToBase36(_)
\* Number.prototype.toString(36) of a non-negative integer.
ToBase36(n) ==
    IF n < 36 THEN <<Base36Digit(n)>>
    ELSE ToBase36(n \div 36) \o <<Base36Digit(n % 36)>>

\* token[0].toUpperCase() + token.slice(1).toLowerCase()
TitleCase(s) == <<UpperChar(s[1])>> \o ToLower(Tail(s))

\* The normalized tokens one raw token is replaced by.
NormalizeToken(token) ==
    IF token # <<>> /\ token[1] = CONTROL_PREFIX THEN <<TOKEN_ESCAPE, token>>
    ELSE IF AllOf(token, ChSpace) THEN <<TOKEN_WS_SPACE, ToBase36(Len(token))>>
    ELSE IF AllOf(token, ChNewline) THEN <<TOKEN_WS_NEWLINE, ToBase36(Len(token))>>
    ELSE IF AllOf(token, ChTab) THEN <<TOKEN_WS_TAB, ToBase36(Len(token))>>
    ELSE IF IsNumberToken(token) THEN <<TOKEN_NUM, token>>
    ELSE IF IsWordToken(token) /\ token = ToLower(token) THEN <<ToLower(token)>>
    ELSE IF IsWordToken(token) /\ token = ToUpper(token)
         THEN <<TOKEN_CASE_UPPER, ToLower(token)>>
    ELSE IF IsWordToken(token) /\ token = TitleCase(token)
         THEN <<TOKEN_CASE_TITLE, ToLower(token)>>
    ELSE <<token>>

\* A normalizer that leaves every token as it is.
normalizeTokensRaw(tokens) == tokens

RECURSIVE normalizeTokens(_)
normalizeTokens(tokens) ==
    IF tokens = <<>> THEN <<>>
    ELSE NormalizeToken(Head(tokens)) \o normalizeTokens(Tail(tokens))

(***************************************************************************)
(* Dictionary and ids                                                      *)
(***************************************************************************)
\* Index (1-based) of x in a sequence that contains it.
IndexOf(seq, x) == CHOOSE i \in 1..Len(seq) : seq[i] = x

Contains(seq, x) == \E i \in 1..Len(seq) : seq[i] = x

RECURSIVE FirstSeen(_, _)
\* The tokens in first-seen order, without repetitions (the Map of tokensToIds).
FirstSeen(tokens, dict) ==
    IF tokens = <<>> THEN dict
    ELSE FirstSeen(Tail(tokens),
                   IF Contains(dict, Head(tokens)) THEN dict
                   ELSE Append(dict, Head(tokens)))

\* A dictionary left in first-seen order.
KeepOrder(dict) == dict

\* [...dictionary].sort() of a sequence of distinct strings.
SortStrings(dict) ==
    LET elems == {dict[i] : i \in 1..Len(dict)}
    IN [r \in 1..Len(dict) |->
          CHOOSE x \in elems : Cardinality({y \in elems : StrLess(y, x)}) = r - 1]

\* Ids in first-seen order beside the sorted dictionary.
tokensToIdsFirstSeen(tokens) ==
    LET dictionary == FirstSeen(tokens, <<>>)
    IN [ids |-> [i \in 1..Len(tokens) |-> IndexOf(dictionary, tokens[i])],
        dictionary |-> SortStrings(dictionary)]

tokensToIds(tokens) ==
    LET dictionary == FirstSeen(tokens, <<>>)
        firstIds == [i \in 1..Len(tokens) |-> IndexOf(dictionary, tokens[i])]
        sortedDictionary == SortStrings(dictionary)
        oldToNew == [k \in 1..Len(dictionary) |-> IndexOf(sortedDictionary, dictionary[k])]
    IN [ids |-> [i \in 1..Len(tokens) |-> oldToNew[firstIds[i]]],
        dictionary |-> sortedDictionary]

(***************************************************************************)
(* Rendering                                                               *)
(***************************************************************************)
Base36Value(c) ==
    IF IsDigit(c) THEN c - 48
    ELSE IF IsLower(c) THEN c - 87
    ELSE IF IsUpper(c) THEN c - 55
    ELSE -1

RECURSIVE SkipSpace(_)
SkipSpace(s) == IF s # <<>> /\ IsSpace(s[1]) THEN SkipSpace(Tail(s)) ELSE s

RECURSIVE Base36Prefix(_, _, _)
\* Value of the longest prefix of base-36 digits of s; seen tells whether one was read.
Base36Prefix(s, acc, seen) ==
    IF s # <<>> /\ Base36Value(s[1]) >= 0
    THEN Base36Prefix(Tail(s), acc * 36 + Base36Value(s[1]), TRUE)
    ELSE [nan |-> ~seen, value |-> acc]

\* parseInt(token, 36): leading white space, an optional sign, then digits.
ParseInt36(token) ==
    LET t == SkipSpace(token)
        signed == t # <<>> /\ t[1] \in {ChPlus, ChMinus}
        r == Base36Prefix(IF signed THEN Tail(t) ELSE t, 0, FALSE)
    IN IF signed /\ t[1] = ChMinus THEN [nan |-> r.nan, value |-> 0 - r.value] ELSE r

\* A rendering result; thrown models the RangeError of repeat(count) for count < 0.
Rendered(piece, rest) ==
    [thrown |-> rest.thrown, text |-> IF rest.thrown THEN <<>> ELSE piece \o rest.text]

RECURSIVE RenderFrom(_, _, _, _)
RenderFrom(tokens, i, pendingCase, pendingMode) ==
    IF i > Len(tokens) THEN [thrown |-> FALSE, text |-> <<>>]
    ELSE LET token == tokens[i]
         IN IF token = TOKEN_CASE_UPPER THEN RenderFrom(tokens, i + 1, "upper", pendingMode)
            ELSE IF token = TOKEN_CASE_TITLE THEN RenderFrom(tokens, i + 1, "title", pendingMode)
            ELSE IF token = TOKEN_WS_SPACE THEN RenderFrom(tokens, i + 1, pendingCase, "space")
            ELSE IF token = TOKEN_WS_NEWLINE THEN RenderFrom(tokens, i + 1, pendingCase, "newline")
            ELSE IF token = TOKEN_WS_TAB THEN RenderFrom(tokens, i + 1, pendingCase, "tab")
            ELSE IF token = TOKEN_NUM THEN RenderFrom(tokens, i + 1, pendingCase, "number")
            ELSE IF token = TOKEN_ESCAPE THEN RenderFrom(tokens, i + 1, pendingCase, "escape")
            ELSE IF pendingMode \in {"space", "newline", "tab"}
                 THEN LET length == ParseInt36(token)
                          count == IF length.nan THEN 0 ELSE length.value
                          ch == IF pendingMode = "space" THEN ChSpace
                                ELSE IF pendingMode = "newline" THEN ChNewline
                                ELSE ChTab
                      IN IF count < 0 THEN [thrown |-> TRUE, text |-> <<>>]
                         ELSE Rendered(Repeat(ch, count),
                                       RenderFrom(tokens, i + 1, pendingCase, "none"))
            ELSE IF pendingMode \in {"number", "escape"}
                 THEN Rendered(token, RenderFrom(tokens, i + 1, pendingCase, "none"))
            ELSE LET cased == IF pendingCase = "upper" THEN ToUpper(token)
                              ELSE IF pendingCase = "title" /\ token # <<>>
                                   THEN TitleCase(token)
                              ELSE token
                 IN Rendered(cased, RenderFrom(tokens, i + 1, "none", "none"))

renderTokens(tokens) == RenderFrom(tokens, 1, "none", "none")

(***************************************************************************)
(* Cyclic Burrows-Wheeler transform                                        *)
(***************************************************************************)
RECURSIVE CompareFrom(_, _, _, _, _)
CompareFrom(ids, length, left, right, offset) ==
    IF offset >= length THEN 0
    ELSE LET leftValue == ids[((left + offset) % length) + 1]
             rightValue == ids[((right + offset) % length) + 1]
         IN IF leftValue < rightValue THEN -1
            ELSE IF leftValue > rightValue THEN 1
            ELSE CompareFrom(ids, length, left, right, offset + 1)

compareRotation(ids, length, left, right) == CompareFrom(ids, length, left, right, 0)

\* Whether start `left` comes before start `right` in the sorted indices (the sort
\* is stable, so equal rotations keep their index order).
RotationBefore(ids, left, right) ==
    LET c == compareRotation(ids, Len(ids), left, right)
    IN c < 0 \/ (c = 0 /\ left < right)

\* Indices left as they are, without the sort.
buildCyclicSuffixArrayUnsorted(ids) == [r \in 1..Len(ids) |-> r - 1]

\* indices.sort(compareRotation): order[r] is the start of the r-th smallest rotation.
buildCyclicSuffixArray(ids) ==
    LET starts == 0..(Len(ids) - 1)
    IN [r \in 1..Len(ids) |->
          CHOOSE i \in starts :
              Cardinality({j \in starts : RotationBefore(ids, j, i)}) = r - 1]

burrowsWheelerTransform(ids) ==
    LET length == Len(ids)
        order == buildCyclicSuffixArray(ids)
    IN IF length = 0 THEN [lastColumn |-> <<>>, primaryIndex |-> 0]
       ELSE IF length = 1 THEN [lastColumn |-> <<ids[1]>>, primaryIndex |-> 0]
       ELSE [lastColumn |->
                [i \in 1..length |->
                    ids[(IF order[i] = 0 THEN length - 1 ELSE order[i] - 1) + 1]],
             primaryIndex |-> (CHOOSE i \in 1..length : order[i] = 0) - 1]

\* next[] of the inverse transform: next[starts[symbol] + occ[symbol]] = i, where
\* starts[symbol] counts the smaller symbols of lastColumn and occ[symbol] the
\* earlier occurrences of symbol.
NextRows(lastColumn) ==
    LET length == Len(lastColumn)
        pos(i) == Cardinality({k \in 1..length : lastColumn[k] < lastColumn[i]})
                  + Cardinality({k \in 1..(i - 1) : lastColumn[k] = lastColumn[i]})
    IN [p \in 1..length |-> (CHOOSE i \in 1..length : pos(i) = p - 1) - 1]

RECURSIVE RestoreWalkBackward(_, _, _, _, _)
\* for (i = length - 1; i >= 0; i--) { row = next[row]; restored[i] = lastColumn[row] }
\* A row outside the array reads as undefined, which a Uint32Array stores as 0.
RestoreWalkBackward(lastColumn, next, row, i, restored) ==
    IF i < 0 THEN restored
    ELSE LET r == IF row >= 0 /\ row < Len(next) THEN next[row + 1] ELSE -1
             v == IF r >= 0 THEN lastColumn[r + 1] ELSE 0
         IN RestoreWalkBackward(lastColumn, next, r, i - 1, <<v>> \o restored)

inverseBurrowsWheelerTransform(lastColumn, primaryIndex, alphabetSize) ==
    IF Len(lastColumn) = 0 THEN <<>>
    ELSE RestoreWalkBackward(lastColumn, NextRows(lastColumn), primaryIndex,
                             Len(lastColumn) - 1, <<>>)

(***************************************************************************)
(* Move-to-front                                                           *)
(***************************************************************************)
Identity(alphabetSize) == [i \in 1..alphabetSize |-> i - 1]

\* The list after the element at 0-based position pos has been moved to the front.
MoveFront(list, pos) ==
    <<list[pos + 1]>> \o SubSeq(list, 1, pos) \o SubSeq(list, pos + 2, Len(list))

RECURSIVE MtfEncodeFrom(_, _)
MtfEncodeFrom(sequence, list) ==
    IF sequence = <<>> THEN <<>>
    ELSE LET pos == IndexOf(list, Head(sequence)) - 1
         IN <<pos>> \o MtfEncodeFrom(Tail(sequence), MoveFront(list, pos))

\* Symbols are in [0, alphabetSize), as the ids and the sentinel are.
moveToFrontEncode(sequence, alphabetSize) == MtfEncodeFrom(sequence, Identity(alphabetSize))

RECURSIVE MtfDecodeFrom(_, _)
\* A position outside the list reads undefined: the output is 0 and the shift
\* loop moves every element one place up, storing 0 in front.
MtfDecodeFrom(mtf, list) ==
    IF mtf = <<>> THEN <<>>
    ELSE LET pos == Head(mtf)
         IN IF pos < Len(list)
            THEN <<list[pos + 1]>> \o MtfDecodeFrom(Tail(mtf), MoveFront(list, pos))
            ELSE <<0>> \o MtfDecodeFrom(Tail(mtf),
                             IF list = <<>> THEN list
                             ELSE <<0>> \o SubSeq(list, 1, Len(list) - 1))

\* A decoder that looks every position up in the initial list.
moveToFrontDecodeStatic(mtf, alphabetSize) ==
    [i \in 1..Len(mtf) |-> Identity(alphabetSize)[mtf[i] + 1]]

moveToFrontDecode(mtf, alphabetSize) == MtfDecodeFrom(mtf, Identity(alphabetSize))

(***************************************************************************)
(* Unsigned 32-bit values as pairs <<hi, lo>> of 16-bit limbs              *)
(***************************************************************************)
\* 2^16, the weight of the high limb.
Limb == Pow2(16)

U32(n) == <<n \div Limb, n % Limb>>

\* The number a pair stands for, for pairs below 2^31.
U32Value(a) == a[1] * Limb + a[2]

U32Less(a, b) == a[1] < b[1] \/ (a[1] = b[1] /\ a[2] < b[2])

U32Add(a, b) == <<a[1] + b[1] + ((a[2] + b[2]) \div Limb), (a[2] + b[2]) % Limb>>

\* a - b for a >= b.
U32Sub(a, b) ==
    IF a[2] >= b[2] THEN <<a[1] - b[1], a[2] - b[2]>>
    ELSE <<a[1] - b[1] - 1, a[2] + Limb - b[2]>>

RECURSIVE BitOr(_, _)
BitOr(a, b) ==
    IF a = 0 THEN b
    ELSE IF b = 0 THEN a
    ELSE (IF a % 2 = 1 \/ b % 2 = 1 THEN 1 ELSE 0) + 2 * BitOr(a \div 2, b \div 2)

U32Or(a, b) == <<BitOr(a[1], b[1]), BitOr(a[2], b[2])>>

\* (v << s) as a 32-bit value, for 0 <= v < 128; the shift count is taken mod 32.
U32Shl(v, s) ==
    LET k == s % 32
    IN IF k < 16 THEN U32(v * Pow2(k)) ELSE <<(v * Pow2(k - 16)) % Limb, 0>>

(***************************************************************************)
(* Varint and u32-LE                                                       *)
(***************************************************************************)
\* A writer that always emits a continuation byte and a final byte.
writeVarintPadded(value) == <<(value % 128) + 128, value \div 128>>

RECURSIVE writeVarint(_)
\* The bytes writeVarint pushes for a value in [0, 2^31).
writeVarint(value) ==
    IF value >= 128 THEN <<(value % 128) + 128>> \o writeVarint(value \div 128)
    ELSE <<value>>

RECURSIVE ReadVarintFrom(_, _, _, _)
ReadVarintFrom(bytes, offset, result, shift) ==
    LET byte == ByteAt(bytes, offset)
        next == U32Or(result, U32Shl(byte % 128, shift))
    IN IF byte >= 128 THEN ReadVarintFrom(bytes, offset + 1, next, shift + 7)
       ELSE [value |-> U32Value(next), offset |-> offset + 1]

\* offset is 0-based; a byte past the end reads as undefined, which ends the loop.
readVarint(bytes, offset) == ReadVarintFrom(bytes, offset, <<0, 0>>, 0)

pushUint32LE(value) ==
    <<value % 256, (value \div 256) % 256, (value \div 65536) % 256,
      (value \div 16777216) % 256>>

readUint32LE(bytes, offset) ==
    <<ByteAt(bytes, offset + 2) + 256 * ByteAt(bytes, offset + 3),
      ByteAt(bytes, offset) + 256 * ByteAt(bytes, offset + 1)>>

(***************************************************************************)
(* UTF-8 (TextEncoder / TextDecoder)                                       *)
(***************************************************************************)
\* TextEncoder.encode of one code point (a scalar value).
Utf8Char(c) ==
    IF c < 128 THEN <<c>>
    ELSE IF c < 2048 THEN <<192 + (c \div 64), 128 + (c % 64)>>
    ELSE IF c < 65536
         THEN <<224 + (c \div 4096), 128 + ((c \div 64) % 64), 128 + (c % 64)>>
    ELSE <<240 + (c \div 262144), 128 + ((c \div 4096) % 64),
           128 + ((c \div 64) % 64), 128 + (c % 64)>>

RECURSIVE Utf8Encode(_)
Utf8Encode(s) == IF s = <<>> THEN <<>> ELSE Utf8Char(Head(s)) \o Utf8Encode(Tail(s))

RECURSIVE Utf8DecodeFrom(_, _, _, _, _, _)
\* The UTF-8 decoder of the Encoding standard: cp is the code point being read,
\* needed the continuation bytes still missing, lower..upper the range allowed
\* for the next one.  A malformed sequence yields U+FFFD and the offending byte
\* is read again.
Utf8DecodeFrom(bytes, i, cp, needed, lower, upper) ==
    IF i > Len(bytes) THEN (IF needed > 0 THEN <<ChReplacement>> ELSE <<>>)
    ELSE LET b == bytes[i]
         IN IF needed = 0
            THEN IF b < 128 THEN <<b>> \o Utf8DecodeFrom(bytes, i + 1, 0, 0, 128, 191)
                 ELSE IF b >= 194 /\ b <= 223
                      THEN Utf8DecodeFrom(bytes, i + 1, b % 32, 1, 128, 191)
                 ELSE IF b >= 224 /\ b <= 239
                      THEN Utf8DecodeFrom(bytes, i + 1, b % 16, 2,
                                          IF b = 224 THEN 160 ELSE 128,
                                          IF b = 237 THEN 159 ELSE 191)
                 ELSE IF b >= 240 /\ b <= 244
                      THEN Utf8DecodeFrom(bytes, i + 1, b % 8, 3,
                                          IF b = 240 THEN 144 ELSE 128,
                                          IF b = 244 THEN 143 ELSE 191)
                 ELSE <<ChReplacement>> \o Utf8DecodeFrom(bytes, i + 1, 0, 0, 128, 191)
            ELSE IF b < lower \/ b > upper
                 THEN <<ChReplacement>> \o Utf8DecodeFrom(bytes, i, 0, 0, 128, 191)
            ELSE IF needed = 1
                 THEN <<cp * 64 + (b % 64)>> \o Utf8DecodeFrom(bytes, i + 1, 0, 0, 128, 191)
            ELSE Utf8DecodeFrom(bytes, i + 1, cp * 64 + (b % 64), needed - 1, 128, 191)

\* new TextDecoder().decode(bytes): ignoreBOM is false, so a leading U+FEFF is dropped.
Utf8Decode(bytes) ==
    LET s == Utf8DecodeFrom(bytes, 1, 0, 0, 128, 191)
    IN IF s # <<>> /\ s[1] = ChBom THEN Tail(s) ELSE s

(***************************************************************************)
(* Legacy RLE + varint (container versions 2 and 3)                        *)
(***************************************************************************)
RECURSIVE EncodeMtfRleFrom(_, _)
EncodeMtfRleFrom(mtf, zeroRun) ==
    IF mtf = <<>> THEN (IF zeroRun > 0 THEN writeVarint(zeroRun * 2) ELSE <<>>)
    ELSE IF Head(mtf) = 0 THEN EncodeMtfRleFrom(Tail(mtf), zeroRun + 1)
    ELSE (IF zeroRun > 0 THEN writeVarint(zeroRun * 2) ELSE <<>>)
         \o writeVarint(Head(mtf) * 2 + 1)
         \o EncodeMtfRleFrom(Tail(mtf), 0)

encodeMtfRle(mtf) == EncodeMtfRleFrom(mtf, 0)

Zeros(n) == [i \in 1..n |-> 0]

RECURSIVE DecodeMtfRleFrom(_, _, _, _)
\* while (index < tokenCount) { readVarint ... }.  Once the offset is past the
\* buffer every read yields the value 0, an empty zero run, so index never grows
\* again: the loop does not end (hangs).
DecodeMtfRleFrom(bytes, offset, tokenCount, mtf) ==
    IF Len(mtf) >= tokenCount THEN [mtf |-> mtf, offset |-> offset, hangs |-> FALSE]
    ELSE IF offset >= Len(bytes) THEN [mtf |-> mtf, offset |-> offset, hangs |-> TRUE]
    ELSE LET parsed == readVarint(bytes, offset)
             value == parsed.value
         IN IF value % 2 = 0
            THEN DecodeMtfRleFrom(bytes, parsed.offset, tokenCount,
                                  mtf \o Zeros(Min(value \div 2, tokenCount - Len(mtf))))
            ELSE DecodeMtfRleFrom(bytes, parsed.offset, tokenCount,
                                  Append(mtf, value \div 2))

decodeMtfRle(bytes, offset, tokenCount) == DecodeMtfRleFrom(bytes, offset, tokenCount, <<>>)

(***************************************************************************)
(* Zero-run encoding (RUNA / RUNB)                                         *)
(***************************************************************************)
\* A run written as that many RUNA symbols.
flushRunUnary(run) == [i \in 1..run |-> 0]

RECURSIVE flushRunBinary(_)
\* The plain binary digits of run, least significant first.
flushRunBinary(run) ==
    IF run > 0 THEN <<run % 2>> \o flushRunBinary(run \div 2) ELSE <<>>

RECURSIVE flushRun(_)
flushRun(run) ==
    IF run > 0 THEN <<(run - 1) % 2>> \o flushRun((run - 1) \div 2) ELSE <<>>

RECURSIVE MtfToSymbolsFrom(_, _)
MtfToSymbolsFrom(mtf, run) ==
    IF mtf = <<>> THEN flushRun(run)
    ELSE IF Head(mtf) = 0 THEN MtfToSymbolsFrom(Tail(mtf), run + 1)
    ELSE flushRun(run) \o <<Head(mtf) + 1>> \o MtfToSymbolsFrom(Tail(mtf), 0)

mtfToSymbols(mtf) == MtfToSymbolsFrom(mtf, 0)

RECURSIVE SymbolsToMtfFrom(_, _, _, _, _)
\* mtf holds the values written so far (mtfIndex = Len(mtf)); the array was
\* allocated with tokenCount zeros, so what is never written stays 0.
SymbolsToMtfFrom(symbols, tokenCount, mtf, run, base) ==
    IF symbols = <<>>
    THEN LET flushed == mtf \o Zeros(Max(0, Min(run, tokenCount - Len(mtf))))
         IN flushed \o Zeros(tokenCount - Len(flushed))
    ELSE LET symbol == Head(symbols)
         IN IF symbol <= 1
            THEN SymbolsToMtfFrom(Tail(symbols), tokenCount, mtf,
                                  run + (IF symbol = 0 THEN 1 ELSE 2) * base, base * 2)
            ELSE LET flushed == mtf \o Zeros(Max(0, Min(run, tokenCount - Len(mtf))))
                     written == IF Len(flushed) < tokenCount
                                THEN Append(flushed, symbol - 1)
                                ELSE flushed
                 IN SymbolsToMtfFrom(Tail(symbols), tokenCount, written, 0, 1)

symbolsToMtf(symbols, tokenCount) == SymbolsToMtfFrom(symbols, tokenCount, <<>>, 0, 1)

(***************************************************************************)
(* Fenwick tree: a record [size, tree, freq, total]; tree and freq are     *)
(* indexed 1..size (slot 0 of the code's arrays is never used).            *)
(***************************************************************************)
RECURSIVE LowBit(_)
\* idx & -idx
LowBit(idx) == IF idx % 2 = 1 THEN 1 ELSE 2 * LowBit(idx \div 2)

RECURSIVE TreeAdd(_, _, _, _)
\* while (idx <= size) { tree[idx] += delta; idx += idx & -idx }
TreeAdd(tree, idx, size, delta) ==
    IF idx > size THEN tree
    ELSE TreeAdd([tree EXCEPT ![idx] = @ + delta], idx + LowBit(idx), size, delta)

\* One iteration of the loop shared by reset and rescale:
\* freq[i] = value; total += value; tree updated from i upward.
FenwickSet(model, i, value) ==
    [model EXCEPT !.freq[i] = value,
                  !.total = @ + value,
                  !.tree = TreeAdd(@, i, model.size, value)]

RECURSIVE FenwickBuild(_, _, _, _)
\* The iterations i = lo..hi of that loop, in order.  The range is split in
\* halves and the first half is evaluated (the test on its size) before the
\* second starts, so that the evaluation does not nest once per iteration.
FenwickBuild(model, values, lo, hi) ==
    IF lo > hi THEN model
    ELSE IF lo = hi THEN FenwickSet(model, lo, values[lo])
    ELSE LET mid == (lo + hi) \div 2
             firstHalf == FenwickBuild(model, values, lo, mid)
         IN IF firstHalf.size = model.size
            THEN FenwickBuild(firstHalf, values, mid + 1, hi)
            ELSE model

FenwickTree(size) ==
    [size |-> size, tree |-> Zeros(size), freq |-> Zeros(size), total |-> 0]

FenwickReset(model, value) ==
    FenwickBuild(FenwickTree(model.size), [i \in 1..model.size |-> value], 1, model.size)

RECURSIVE FenwickSum(_, _)
FenwickSum(model, index) ==
    IF index <= 0 THEN 0
    ELSE model.tree[index] + FenwickSum(model, index - LowBit(index))

FenwickAdd(model, index, delta) ==
    [model EXCEPT !.freq[index] = @ + delta,
                  !.total = @ + delta,
                  !.tree = TreeAdd(@, index, model.size, delta)]

\* A rescale that halves rounding down and keeps no floor of 1.
FenwickRescaleFloor(model) ==
    FenwickBuild(
        [model EXCEPT !.tree = Zeros(model.size), !.total = 0],
        [i \in 1..model.size |-> model.freq[i] \div 2],
        1, model.size)

FenwickRescale(model) ==
    FenwickBuild(
        [model EXCEPT !.tree = Zeros(model.size), !.total = 0],
        [i \in 1..model.size |->
            IF (model.freq[i] + 1) \div 2 = 0 THEN 1 ELSE (model.freq[i] + 1) \div 2],
        1, model.size)

RECURSIVE TopBit(_, _)
\* while (bit <= size) bit <<= 1; bit >>= 1
TopBit(bit, size) == IF bit <= size THEN TopBit(bit * 2, size) ELSE bit \div 2

RECURSIVE FindFrom(_, _, _, _, _)
FindFrom(model, value, idx, bit, sum) ==
    IF bit = 0 THEN idx + 1
    ELSE LET next == idx + bit
         IN IF next <= model.size /\ sum + model.tree[next] <= value
            THEN FindFrom(model, value, next, bit \div 2, sum + model.tree[next])
            ELSE FindFrom(model, value, idx, bit \div 2, sum)

\* A search that starts from bit 1 whatever the size.
FenwickFindFromBitOne(model, value) ==
    FindFrom(model, value, 0, 1, 0)

FenwickFindByCumulative(model, value) ==
    FindFrom(model, value, 0, TopBit(1, model.size), 0)

(***************************************************************************)
(* Adaptive arithmetic coder                                               *)
(***************************************************************************)
ENTROPY_MAX_TOTAL == Pow2(15)

ENTROPY_TOP_VALUE == <<Limb - 1, Limb - 1>>

ENTROPY_FIRST_QTR == <<Pow2(14), 0>>

ENTROPY_HALF == <<Pow2(15), 0>>

ENTROPY_THIRD_QTR == <<Pow2(15) + Pow2(14), 0>>

\* Math.floor(range * c / total) for range <= 2^32 and 0 <= c <= total <= 2^15:
\* it is range for c = total; else, with range = hi * 2^16 + lo, the quotient
\* is taken limb by limb.
MulDiv(range, c, total) ==
    IF c = total THEN range ELSE
    LET a == range[1] * c
        q1 == a \div total
        r1 == a % total
        hiPart == r1 * Limb
        loPart == range[2] * c
        q2 == (hiPart \div total) + (loPart \div total)
              + (((hiPart % total) + (loPart % total)) \div total)
    IN <<q1 + (q2 \div Limb), q2 % Limb>>

\* The model update that follows every coded symbol.
ModelUpdate(model, symbolIndex) ==
    LET added == FenwickAdd(model, symbolIndex, 1)
    IN IF added.total >= ENTROPY_MAX_TOTAL THEN FenwickRescale(added) ELSE added

\* The interval [low, high] narrowed to the symbol; used by encoder and decoder.
Narrow(low, high, model, symbolIndex) ==
    LET total == model.total
        cum == FenwickSum(model, symbolIndex - 1)
        freq == model.freq[symbolIndex]
        range == U32Add(U32Sub(high, low), <<0, 1>>)
    IN [high |-> U32Sub(U32Add(low, MulDiv(range, cum + freq, total)), <<0, 1>>),
        low |-> U32Add(low, MulDiv(range, cum, total))]

ArithmeticEncoder ==
    [low |-> <<0, 0>>, high |-> ENTROPY_TOP_VALUE, pending |-> 0, bits |-> <<>>]

outputBitAndPending(enc, bit) ==
    [enc EXCEPT !.bits = @ \o <<bit>> \o [i \in 1..enc.pending |-> 1 - bit],
                !.pending = 0]

Shifted(x) == U32Add(x, x)

ShiftedPlusOne(x) == U32Add(U32Add(x, x), <<0, 1>>)

RECURSIVE EncoderRenormalizeNoUnderflow(_)
\* A renormalization without the middle case (low >= FIRST_QTR, high < THIRD_QTR).
EncoderRenormalizeNoUnderflow(enc) ==
    IF U32Less(enc.high, ENTROPY_HALF)
    THEN LET e == outputBitAndPending(enc, 0)
         IN EncoderRenormalizeNoUnderflow([e EXCEPT !.low = Shifted(enc.low),
                                                    !.high = ShiftedPlusOne(enc.high)])
    ELSE IF ~U32Less(enc.low, ENTROPY_HALF)
    THEN LET e == outputBitAndPending(enc, 1)
         IN EncoderRenormalizeNoUnderflow(
                [e EXCEPT !.low = Shifted(U32Sub(enc.low, ENTROPY_HALF)),
                          !.high = ShiftedPlusOne(U32Sub(enc.high, ENTROPY_HALF))])
    ELSE enc

RECURSIVE EncoderRenormalize(_)
EncoderRenormalize(enc) ==
    IF U32Less(enc.high, ENTROPY_HALF)
    THEN LET e == outputBitAndPending(enc, 0)
         IN EncoderRenormalize([e EXCEPT !.low = Shifted(enc.low),
                                         !.high = ShiftedPlusOne(enc.high)])
    ELSE IF ~U32Less(enc.low, ENTROPY_HALF)
    THEN LET e == outputBitAndPending(enc, 1)
         IN EncoderRenormalize(
                [e EXCEPT !.low = Shifted(U32Sub(enc.low, ENTROPY_HALF)),
                          !.high = ShiftedPlusOne(U32Sub(enc.high, ENTROPY_HALF))])
    ELSE IF ~U32Less(enc.low, ENTROPY_FIRST_QTR) /\ U32Less(enc.high, ENTROPY_THIRD_QTR)
    THEN EncoderRenormalize(
             [enc EXCEPT !.pending = @ + 1,
                         !.low = Shifted(U32Sub(enc.low, ENTROPY_FIRST_QTR)),
                         !.high = ShiftedPlusOne(U32Sub(enc.high, ENTROPY_FIRST_QTR))])
    ELSE enc

encodeSymbol(enc, model, symbolIndex) ==
    LET n == Narrow(enc.low, enc.high, model, symbolIndex)
    IN EncoderRenormalize([enc EXCEPT !.low = n.low, !.high = n.high])

EncoderFinish(enc) ==
    LET e == [enc EXCEPT !.pending = @ + 1]
    IN IF U32Less(e.low, ENTROPY_FIRST_QTR) THEN outputBitAndPending(e, 0)
       ELSE outputBitAndPending(e, 1)

RECURSIVE BitsValue(_, _)
BitsValue(bits, acc) ==
    IF bits = <<>> THEN acc ELSE BitsValue(Tail(bits), acc * 2 + Head(bits))

RECURSIVE BitWriterFinish(_)
\* The bytes of a BitWriter: bits packed MSB first, the last byte padded with 0 bits.
BitWriterFinish(bits) ==
    IF bits = <<>> THEN <<>>
    ELSE IF Len(bits) < 8 THEN <<BitsValue(bits, 0) * Pow2(8 - Len(bits))>>
    ELSE <<BitsValue(SubSeq(bits, 1, 8), 0)>> \o BitWriterFinish(SubSeq(bits, 9, Len(bits)))

RECURSIVE EncodeLoop(_, _, _)
EncodeLoop(symbols, model, enc) ==
    IF symbols = <<>> THEN enc
    ELSE LET symbolIndex == Head(symbols) + 1
         IN EncodeLoop(Tail(symbols), ModelUpdate(model, symbolIndex),
                       encodeSymbol(enc, model, symbolIndex))

\* A coder that stores one byte per symbol.
entropyEncodeSymbolsStored(symbols, alphabetSize) == symbols

entropyEncodeSymbols(symbols, alphabetSize) ==
    IF Len(symbols) = 0 THEN <<>>
    ELSE BitWriterFinish(
             EncoderFinish(
                 EncodeLoop(symbols, FenwickReset(FenwickTree(alphabetSize), 1),
                            ArithmeticEncoder)).bits)

entropyEncodeBytes(bytes) ==
    IF Len(bytes) = 0 THEN <<>>
    ELSE BitWriterFinish(
             EncoderFinish(
                 EncodeLoop(bytes, FenwickReset(FenwickTree(256), 1),
                            ArithmeticEncoder)).bits)

\* BitReader.readBit for the bit at 0-based position pos: 0 once the bytes are exhausted.
readBit(bytes, pos) == (ByteAt(bytes, pos \div 8) \div Pow2(7 - (pos % 8))) % 2

RECURSIVE readBits(_, _, _)
\* The value of count <= 16 bits starting at pos.
readBits(bytes, pos, count) ==
    IF count = 0 THEN 0
    ELSE readBits(bytes, pos, count - 1) * 2 + readBit(bytes, pos + count - 1)

\* new ArithmeticDecoder(reader): value = readBits(32); pos is the reader's position.
ArithmeticDecoder(bytes) ==
    [low |-> <<0, 0>>, high |-> ENTROPY_TOP_VALUE,
     value |-> <<readBits(bytes, 0, 16), readBits(bytes, 16, 16)>>, pos |-> 32]

\* range * k as three 16-bit limbs, for k < 2^15.
Mul3(range, k) ==
    LET lo == range[2] * k
        mid == range[1] * k + (lo \div Limb)
    IN <<mid \div Limb, mid % Limb, lo % Limb>>

Less3(a, b) ==
    \/ a[1] < b[1]
    \/ (a[1] = b[1] /\ a[2] < b[2])
    \/ (a[1] = b[1] /\ a[2] = b[2] /\ a[3] < b[3])

RECURSIVE QuotientFrom(_, _, _, _)
\* The largest q < 2^15 with q * range < target, found bit by bit.
QuotientFrom(range, target, q, bit) ==
    IF bit = 0 THEN q
    ELSE IF Less3(Mul3(range, q + bit), target)
         THEN QuotientFrom(range, target, q + bit, bit \div 2)
         ELSE QuotientFrom(range, target, q, bit \div 2)

\* Math.floor(((value - low + 1) * total - 1) / range): the largest q with
\* q * range <= (value - low + 1) * total - 1.
CumValue(dec, total) ==
    LET range == U32Add(U32Sub(dec.high, dec.low), <<0, 1>>)
        offset == U32Add(U32Sub(dec.value, dec.low), <<0, 1>>)
    IN QuotientFrom(range, Mul3(offset, total), 0, Pow2(14))

RECURSIVE DecoderRenormalize(_, _)
DecoderRenormalize(dec, bytes) ==
    LET step(sub) ==
            LET v == ShiftedPlusOne(U32Sub(dec.value, sub))
                bit == readBit(bytes, dec.pos)
            IN [low |-> Shifted(U32Sub(dec.low, sub)),
                high |-> ShiftedPlusOne(U32Sub(dec.high, sub)),
                value |-> <<v[1] % Limb, v[2] - 1 + bit>>,
                pos |-> dec.pos + 1]
    IN IF U32Less(dec.high, ENTROPY_HALF) THEN DecoderRenormalize(step(<<0, 0>>), bytes)
       ELSE IF ~U32Less(dec.low, ENTROPY_HALF)
            THEN DecoderRenormalize(step(ENTROPY_HALF), bytes)
       ELSE IF ~U32Less(dec.low, ENTROPY_FIRST_QTR)
               /\ U32Less(dec.high, ENTROPY_THIRD_QTR)
            THEN DecoderRenormalize(step(ENTROPY_FIRST_QTR), bytes)
       ELSE dec

\* A decoder that looks no symbol up and takes the first one.
decodeSymbolFirst(dec, model, bytes) ==
    LET n == Narrow(dec.low, dec.high, model, 1)
    IN [symbolIndex |-> 1,
        decoder |-> DecoderRenormalize([dec EXCEPT !.low = n.low, !.high = n.high], bytes)]

\* The decoder after one symbol, and the symbol index it found.
decodeSymbol(dec, model, bytes) ==
    LET symbolIndex == FenwickFindByCumulative(model, CumValue(dec, model.total))
        n == Narrow(dec.low, dec.high, model, symbolIndex)
    IN [symbolIndex |-> symbolIndex,
        decoder |-> DecoderRenormalize([dec EXCEPT !.low = n.low, !.high = n.high], bytes)]

RECURSIVE DecodeLoop(_, _, _, _)
DecodeLoop(bytes, count, model, dec) ==
    IF count = 0 THEN <<>>
    ELSE LET d == decodeSymbol(dec, model, bytes)
         IN <<d.symbolIndex - 1>>
            \o DecodeLoop(bytes, count - 1, ModelUpdate(model, d.symbolIndex), d.decoder)

\* A decoder whose model has one symbol more than the encoder's.
entropyDecodeSymbolsWide(bytes, symbolCount, alphabetSize) ==
    IF symbolCount = 0 THEN <<>>
    ELSE DecodeLoop(bytes, symbolCount, FenwickReset(FenwickTree(alphabetSize + 1), 1),
                    ArithmeticDecoder(bytes))

entropyDecodeSymbols(bytes, symbolCount, alphabetSize) ==
    IF symbolCount = 0 THEN <<>>
    ELSE DecodeLoop(bytes, symbolCount, FenwickReset(FenwickTree(alphabetSize), 1),
                    ArithmeticDecoder(bytes))

entropyDecodeBytes(bytes, outputLength) ==
    IF outputLength = 0 THEN <<>>
    ELSE DecodeLoop(bytes, outputLength, FenwickReset(FenwickTree(256), 1),
                    ArithmeticDecoder(bytes))

(***************************************************************************)
(* Public API: compress / decompress                                       *)
(***************************************************************************)
WBWT_MAGIC == 1463965524

WBWT_VERSION == 4

SENTINEL_ID == 0

EmptyPayload == [dictionary |-> <<>>, primaryIndex |-> 0, mtf |-> <<>>]

wbwtCompress(t) ==
    LET tokens == normalizeTokens(tokenize(t))
        mapped == tokensToIds(tokens)
        idsWithSentinel == Append(mapped.ids, SENTINEL_ID)
        transformed == burrowsWheelerTransform(idsWithSentinel)
    IN IF Len(tokens) = 0 THEN EmptyPayload
       ELSE [dictionary |-> mapped.dictionary,
             primaryIndex |-> transformed.primaryIndex,
             mtf |-> moveToFrontEncode(transformed.lastColumn,
                                       Len(mapped.dictionary) + 1)]

RECURSIVE TokensOfIds(_, _)
\* for each id: if (id !== SENTINEL_ID) tokens.push(dictionary[id - 1])
TokensOfIds(ids, dictionary) ==
    IF ids = <<>> THEN <<>>
    ELSE (IF Head(ids) # SENTINEL_ID THEN <<dictionary[Head(ids)]>> ELSE <<>>)
         \o TokensOfIds(Tail(ids), dictionary)

\* A decompressor without the early return that also looks the sentinel up in
\* the dictionary: dictionary[-1] is undefined and rendering it throws.
wbwtDecompressKeepSentinel(p) ==
    LET alphabetSize == Len(p.dictionary) + 1
        lastColumn == moveToFrontDecode(p.mtf, alphabetSize)
        ids == inverseBurrowsWheelerTransform(lastColumn, p.primaryIndex, alphabetSize)
    IN IF \E i \in 1..Len(ids) : ids[i] = SENTINEL_ID
       THEN [thrown |-> TRUE, text |-> <<>>]
       ELSE renderTokens(TokensOfIds(ids, p.dictionary))

\* The string returned, or thrown = TRUE when rendering throws.
wbwtDecompress(p) ==
    IF Len(p.dictionary) = 0 \/ Len(p.mtf) = 0 THEN [thrown |-> FALSE, text |-> <<>>]
    ELSE LET alphabetSize == Len(p.dictionary) + 1
             lastColumn == moveToFrontDecode(p.mtf, alphabetSize)
             ids == inverseBurrowsWheelerTransform(lastColumn, p.primaryIndex, alphabetSize)
         IN renderTokens(TokensOfIds(ids, p.dictionary))

(***************************************************************************)
(* Container: serialize                                                    *)
(***************************************************************************)
\* A header that writes primaryIndex before tokenCount.
FrameHeaderSwapped(dictCount, tokenCount, primaryIndex, symbolCount) ==
    pushUint32LE(WBWT_MAGIC) \o pushUint32LE(WBWT_VERSION)
    \o writeVarint(dictCount) \o writeVarint(primaryIndex)
    \o writeVarint(tokenCount) \o writeVarint(symbolCount)

\* magic, version and the four varint fields of a version 4 frame.
FrameHeader(dictCount, tokenCount, primaryIndex, symbolCount) ==
    pushUint32LE(WBWT_MAGIC) \o pushUint32LE(WBWT_VERSION)
    \o writeVarint(dictCount) \o writeVarint(tokenCount)
    \o writeVarint(primaryIndex) \o writeVarint(symbolCount)

RECURSIVE CommonPrefix(_, _, _)
\* while (prefix < maxPrefix && prevBytes[prefix] === bytes[prefix]) prefix++
CommonPrefix(prevBytes, bytes, prefix) ==
    IF prefix < Min(Len(prevBytes), Len(bytes)) /\ prevBytes[prefix + 1] = bytes[prefix + 1]
    THEN CommonPrefix(prevBytes, bytes, prefix + 1)
    ELSE prefix

RECURSIVE FrontCode(_, _)
\* The front-coded dictionary: (varint prefix, varint suffix length, suffix bytes).
FrontCode(dictionary, prevBytes) ==
    IF dictionary = <<>> THEN <<>>
    ELSE LET bytes == Utf8Encode(Head(dictionary))
             prefix == CommonPrefix(prevBytes, bytes, 0)
         IN writeVarint(prefix) \o writeVarint(Len(bytes) - prefix)
            \o SubSeq(bytes, prefix + 1, Len(bytes))
            \o FrontCode(Tail(dictionary), bytes)

serializeWBWT(p) ==
    LET alphabetSize == Len(p.dictionary) + 1
        symbols == mtfToSymbols(p.mtf)
    IN FrameHeader(Len(p.dictionary), Len(p.mtf), p.primaryIndex, Len(symbols))
       \o FrontCode(p.dictionary, <<>>)
       \o entropyEncodeSymbols(symbols, alphabetSize + 1)

(***************************************************************************)
(* Container: deserialize                                                  *)
(***************************************************************************)
\* A version check that accepts every version from 2 up.
VersionAtLeastTwo(version) == ~U32Less(version, U32(2))

\* version !== 2 && version !== 3 && version !== WBWT_VERSION is an error.
VersionSupported(version) == version \in {U32(2), U32(3), U32(WBWT_VERSION)}

\* magic !== WBWT_MAGIC is an error.
MagicMatches(magic) == magic = U32(WBWT_MAGIC)

\* bytes padded with zero bytes to length n (a fresh Uint8Array is zero-filled).
ZeroPadded(bytes, n) == bytes \o Zeros(n - Len(bytes))

RECURSIVE ReadDictionaryV4(_, _, _, _)
ReadDictionaryV4(bytes, offset, count, prevBytes) ==
    IF count = 0 THEN [dictionary |-> <<>>, offset |-> offset]
    ELSE LET prefixParsed == readVarint(bytes, offset)
             prefix == prefixParsed.value
             suffixParsed == readVarint(bytes, prefixParsed.offset)
             suffixLength == suffixParsed.value
             suffix == Slice(bytes, suffixParsed.offset, suffixParsed.offset + suffixLength)
             tokenBytes == ZeroPadded(Slice(prevBytes, 0, prefix), prefix)
                           \o ZeroPadded(suffix, suffixLength)
             rest == ReadDictionaryV4(bytes, suffixParsed.offset + suffixLength,
                                      count - 1, tokenBytes)
         IN [dictionary |-> <<Utf8Decode(tokenBytes)>> \o rest.dictionary,
             offset |-> rest.offset]

RECURSIVE ReadDictionaryLegacy(_, _, _)
ReadDictionaryLegacy(bytes, offset, count) ==
    IF count = 0 THEN [dictionary |-> <<>>, offset |-> offset]
    ELSE LET parsed == readVarint(bytes, offset)
             length == parsed.value
             rest == ReadDictionaryLegacy(bytes, parsed.offset + length, count - 1)
         IN [dictionary |->
                <<Utf8Decode(Slice(bytes, parsed.offset, parsed.offset + length))>>
                \o rest.dictionary,
             offset |-> rest.offset]

Thrown(message) == [status |-> "error", error |-> message, payload |-> EmptyPayload]

\* status "ok": the payload returned; "error": the Error thrown; "hang": the call
\* never returns (the loop of decodeMtfRle does not end).
deserializeWBWT(bytes) ==
    LET magic == readUint32LE(bytes, 0)
        version == readUint32LE(bytes, 4)
        isV4 == version = U32(WBWT_VERSION)
        dictParsed == readVarint(bytes, 8)
        dictCount == dictParsed.value
        tokenParsed == readVarint(bytes, dictParsed.offset)
        tokenCount == tokenParsed.value
        primaryParsed == readVarint(bytes, tokenParsed.offset)
        primaryIndex == primaryParsed.value
        symbolParsed == IF isV4 THEN readVarint(bytes, primaryParsed.offset)
                        ELSE [value |-> 0, offset |-> primaryParsed.offset]
        symbolCount == symbolParsed.value
        dict == IF isV4 THEN ReadDictionaryV4(bytes, symbolParsed.offset, dictCount, <<>>)
                ELSE ReadDictionaryLegacy(bytes, symbolParsed.offset, dictCount)
        offset == dict.offset
        packedLengthParsed == readVarint(bytes, offset)
        mtfPacked == IF version = U32(2) THEN Slice(bytes, offset, Len(bytes))
                     ELSE entropyDecodeBytes(
                              Slice(bytes, packedLengthParsed.offset, Len(bytes)),
                              packedLengthParsed.value)
        mtfParsed == decodeMtfRle(mtfPacked, 0, tokenCount)
        mtfV4 == symbolsToMtf(
                     entropyDecodeSymbols(Slice(bytes, offset, Len(bytes)), symbolCount,
                                          dictCount + 2),
                     tokenCount)
    IN IF ~MagicMatches(magic) THEN Thrown("WBWT: invalid header")
       ELSE IF ~VersionSupported(version) THEN Thrown("WBWT: unsupported version")
       ELSE IF ~isV4 /\ mtfParsed.hangs
            THEN [status |-> "hang", error |-> "", payload |-> EmptyPayload]
       ELSE [status |-> "ok", error |-> "",
             payload |-> [dictionary |-> dict.dictionary,
                          primaryIndex |-> primaryIndex,
                          mtf |-> IF isV4 THEN mtfV4 ELSE mtfParsed.mtf]]

(***************************************************************************)
(* Legacy frames (container versions 2 and 3), as the codec's section on   *)
(* versioning lays them out                                                *)
(***************************************************************************)
RECURSIVE PlainDictionary(_)
PlainDictionary(dictionary) ==
    IF dictionary = <<>> THEN <<>>
    ELSE LET bytes == Utf8Encode(Head(dictionary))
         IN writeVarint(Len(bytes)) \o bytes \o PlainDictionary(Tail(dictionary))

LegacyFrame(p, version) ==
    LET packed == encodeMtfRle(p.mtf)
    IN pushUint32LE(WBWT_MAGIC) \o pushUint32LE(version)
       \o writeVarint(Len(p.dictionary)) \o writeVarint(Len(p.mtf))
       \o writeVarint(p.primaryIndex)
       \o PlainDictionary(p.dictionary)
       \o (IF version = 2 THEN packed
           ELSE writeVarint(Len(packed)) \o entropyEncodeBytes(packed))

(***************************************************************************)
(* LZ payloads: LZString.compressToEncodedURIComponent of the lz-string    *)
(* library (LZW codes of growing width, least significant bit first,       *)
(* packed six bits to a character of the URI-safe alphabet).                *)
(* The coder state is [phrases, toCreate, w, enlargeIn, numBits, bits];    *)
(* the phrase at position k of phrases has code k + 2.                     *)
(***************************************************************************)
\* value written as n bits, least significant first.
LzBits(value, n) == [i \in 1..n |-> (value \div Pow2(i - 1)) % 2]

\* context_enlargeIn--; at 0 the code width grows by one bit.
LzEnlarge(st) ==
    IF st.enlargeIn = 1
    THEN [st EXCEPT !.enlargeIn = Pow2(st.numBits), !.numBits = @ + 1]
    ELSE [st EXCEPT !.enlargeIn = @ - 1]

\* The code of w: its first occurrence as a literal character (marker 0 and
\* 8 bits, or marker 1 and 16 bits), later its dictionary code.
LzOutput(st) ==
    IF st.w \in st.toCreate
    THEN LET c == st.w[1]
             literal == IF c < 256 THEN LzBits(0, st.numBits) \o LzBits(c, 8)
                        ELSE LzBits(1, st.numBits) \o LzBits(c, 16)
         IN LzEnlarge(LzEnlarge([st EXCEPT !.bits = @ \o literal,
                                           !.toCreate = @ \ {st.w}]))
    ELSE LzEnlarge([st EXCEPT !.bits = @ \o LzBits(IndexOf(st.phrases, st.w) + 2,
                                                    st.numBits)])

\* One character of the input.
LzStep(st, c) ==
    LET seen == IF Contains(st.phrases, <<c>>) THEN st
                ELSE [st EXCEPT !.phrases = Append(@, <<c>>), !.toCreate = @ \cup {<<c>>}]
        wc == seen.w \o <<c>>
    IN IF Contains(seen.phrases, wc) THEN [seen EXCEPT !.w = wc]
       ELSE [LzOutput(seen) EXCEPT !.phrases = Append(@, wc), !.w = <<c>>]

RECURSIVE LzLoop(_, _, _)
\* (The state after a character is bound as a value before the next step.)
LzLoop(t, i, st) ==
    IF i > Len(t) THEN st
    ELSE CHOOSE last \in {LzLoop(t, i + 1, next) : next \in {LzStep(st, t[i])}} : TRUE

\* The character of a 6-bit value in the alphabet A-Z a-z 0-9 with the
\* characters of the values 62 and 63 given.
SixBitChar(v, c62, c63) ==
    IF v < 26 THEN 65 + v
    ELSE IF v < 52 THEN 97 + (v - 26)
    ELSE IF v < 62 THEN 48 + (v - 52)
    ELSE IF v = 62 THEN c62 ELSE c63

\* The value of a group of bits, most significant first.
BitsToValue(bits) == BitsValue(bits, 0)

compressToEncodedURIComponent(t) ==
    LET start == [phrases |-> <<>>, toCreate |-> {}, w |-> <<>>, enlargeIn |-> 2,
                  numBits |-> 2, bits |-> <<>>]
        looped == LzLoop(t, 1, start)
        last == IF looped.w # <<>> THEN LzOutput(looped) ELSE looped
        bits == last.bits \o LzBits(2, last.numBits)
        count == (Len(bits) \div 6) + 1
        padded == bits \o [i \in 1..(6 * count - Len(bits)) |-> 0]
    IN [k \in 1..count |->
           SixBitChar(BitsToValue(SubSeq(padded, 6 * k - 5, 6 * k)), ChPlus, ChMinus)]

\* The 6-bit value of a payload character (a space reads as '+'); a
\* character outside the alphabet, and '$', contribute only 0 bits.
LzCharValue(c) ==
    IF c >= 65 /\ c <= 90 THEN c - 65
    ELSE IF c >= 97 /\ c <= 122 THEN c - 71
    ELSE IF c >= 48 /\ c <= 57 THEN c + 4
    ELSE IF c = ChPlus \/ c = ChSpace THEN 62
    ELSE IF c = ChMinus THEN 63 ELSE 0

\* Bit n (from 0) of the payload, each character most significant bit first;
\* past the end every bit reads 0.
LzBitAt(input, n) ==
    IF n \div 6 < Len(input)
    THEN (LzCharValue(input[(n \div 6) + 1]) \div Pow2(5 - (n % 6))) % 2
    ELSE 0

RECURSIVE LzRead(_, _, _)
\* The value of the n bits from pos, least significant first.
LzRead(input, pos, n) ==
    IF n = 0 THEN 0 ELSE LzBitAt(input, pos) + 2 * LzRead(input, pos + 1, n - 1)

\* The text "undefined", what an undefined w concatenates as.
UndefinedText == <<117, 110, 100, 101, 102, 105, 110, 101, 100>>

\* One turn of the decoder loop. dict[k] is dictionary[k + 2]; the empty
\* string stands for undefined (as entry and as w).
LzDecodeStep(input, st) ==
    IF (st.pos \div 6) + 1 > Len(input) THEN [st EXCEPT !.status = "empty"]
    ELSE
    LET code == LzRead(input, st.pos, st.numBits)
        afterCode == st.pos + st.numBits
        literal == code < 2
        width == IF code = 0 THEN 8 ELSE IF code = 1 THEN 16 ELSE 0
        dict1 == IF literal THEN Append(st.dict, <<LzRead(input, afterCode, width)>>)
                 ELSE st.dict
        c == IF literal THEN Len(dict1) + 2 ELSE code
        e1 == IF literal THEN st.enlargeIn - 1 ELSE st.enlargeIn
        e2 == IF e1 = 0 THEN Pow2(st.numBits) ELSE e1
        nb2 == IF e1 = 0 THEN st.numBits + 1 ELSE st.numBits
        known == c - 2 <= Len(dict1) /\ dict1[c - 2] # <<>>
        entry == IF known THEN dict1[c - 2] ELSE st.w \o <<st.w[1]>>
        e3 == e2 - 1
    IN IF code = 2 THEN [st EXCEPT !.status = "done"]
       ELSE IF ~known /\ c # Len(dict1) + 3 THEN [st EXCEPT !.status = "null"]
       ELSE IF ~known /\ st.w = <<>> THEN [st EXCEPT !.status = "thrown"]
       ELSE [st EXCEPT !.pos = afterCode + width,
                       !.dict = Append(dict1, (IF st.w = <<>> THEN UndefinedText ELSE st.w)
                                               \o <<entry[1]>>),
                       !.result = @ \o entry,
                       !.w = entry,
                       !.enlargeIn = IF e3 = 0 THEN Pow2(nb2) ELSE e3,
                       !.numBits = IF e3 = 0 THEN nb2 + 1 ELSE nb2]

RECURSIVE LzDecodeLoop(_, _)
\* (The state after a code is bound as a value before the next turn.)
LzDecodeLoop(input, st) ==
    IF st.status # "run" THEN st
    ELSE CHOOSE last \in {LzDecodeLoop(input, next) : next \in {LzDecodeStep(input, st)}} : TRUE

\* The result of a decoder: a text, null, a thrown error, or no return.
TextResult(t) == [null |-> FALSE, thrown |-> FALSE, hangs |-> FALSE, text |-> t]

NullResult == [null |-> TRUE, thrown |-> FALSE, hangs |-> FALSE, text |-> <<>>]

ThrownResult == [null |-> FALSE, thrown |-> TRUE, hangs |-> FALSE, text |-> <<>>]

HangResult == [null |-> FALSE, thrown |-> FALSE, hangs |-> TRUE, text |-> <<>>]

decompressFromEncodedURIComponent(input) ==
    LET first == LzRead(input, 0, 2)
        width == IF first = 0 THEN 8 ELSE IF first = 1 THEN 16 ELSE 0
        c == IF first < 2 THEN <<LzRead(input, 2, width)>> ELSE <<>>
        final == LzDecodeLoop(input, [pos |-> 2 + width, dict |-> <<c>>, enlargeIn |-> 4,
                                      numBits |-> 3, w |-> c, result |-> c,
                                      status |-> "run"])
    IN IF input = <<>> THEN NullResult
       ELSE IF first = 2 THEN TextResult(<<>>)
       ELSE IF final.status = "done" THEN TextResult(final.result)
       ELSE IF final.status = "empty" THEN TextResult(<<>>)
       ELSE IF final.status = "null" THEN NullResult
       ELSE ThrownResult

(***************************************************************************)
(* URL hash (hash.ts)                                                      *)
(***************************************************************************)
PREFIX_LZ == <<35, 118, 49, 46>>

PREFIX_WBWT == <<35, 119, 52, 46>>

WBWT_MAX_CHARS == 20000

\* /^[A-Za-z0-9+\-_$]+$/
HASH_PAYLOAD_PATTERN(s) ==
    /\ s # <<>>
    /\ \A i \in 1..Len(s) :
          \/ s[i] >= 65 /\ s[i] <= 90
          \/ s[i] >= 97 /\ s[i] <= 122
          \/ s[i] >= 48 /\ s[i] <= 57
          \/ s[i] \in {43, 45, 95, 36}

\* /^(v1|w4)\.([A-Za-z0-9+\-_$]+)$/
DIRECT_HASH_PATTERN(s) ==
    /\ Len(s) >= 4
    /\ SubSeq(s, 1, 3) \in {SubSeq(PREFIX_LZ, 2, 4), SubSeq(PREFIX_WBWT, 2, 4)}
    /\ HASH_PAYLOAD_PATTERN(SubSeq(s, 4, Len(s)))

\* btoa without its padding, '+' written '-' and '/' written '_'.
toBase64Url(bytes) ==
    LET bitAt(n) == IF n \div 8 < Len(bytes)
                    THEN (bytes[(n \div 8) + 1] \div Pow2(7 - (n % 8))) % 2 ELSE 0
        count == (8 * Len(bytes) + 5) \div 6
    IN [k \in 1..count |->
           SixBitChar(BitsToValue([j \in 1..6 |-> bitAt(6 * (k - 1) + j - 1)]), 45, 95)]

\* atob of the payload with '-' read '+', '_' read '/' and the padding put
\* back: it throws on a character outside the base64 alphabet and on a
\* length of 4k + 1.
fromBase64Url(s) ==
    LET base64 == [i \in 1..Len(s) |-> IF s[i] = 45 THEN 43 ELSE IF s[i] = 95 THEN 47 ELSE s[i]]
        valid(c) == \/ c >= 65 /\ c <= 90
                    \/ c >= 97 /\ c <= 122
                    \/ c >= 48 /\ c <= 57
                    \/ c \in {43, 47}
        value(c) == IF c = 47 THEN 63 ELSE LzCharValue(c)
        bitAt(n) == (value(base64[(n \div 6) + 1]) \div Pow2(5 - (n % 6))) % 2
        count == (6 * Len(s)) \div 8
    IN IF Len(s) % 4 = 1 \/ \E i \in 1..Len(s) : ~valid(base64[i])
       THEN [thrown |-> TRUE, bytes |-> <<>>]
       ELSE [thrown |-> FALSE,
             bytes |-> [k \in 1..count |->
                           BitsToValue([j \in 1..8 |-> bitAt(8 * (k - 1) + j - 1)])]]

NoPayloadInfo == [null |-> TRUE, version |-> <<>>, payload |-> <<>>]

extractPayloadFromHash(h) ==
    LET cleaned == IF h # <<>> /\ h[1] = 35 THEN Tail(h) ELSE h
    IN IF h = <<>> \/ ~DIRECT_HASH_PATTERN(cleaned) THEN NoPayloadInfo
       ELSE [null |-> FALSE, version |-> SubSeq(cleaned, 1, 2),
             payload |-> SubSeq(cleaned, 4, Len(cleaned))]

\* The retry of the LZ branch decodes the same payload (a payload of the
\* pattern has no '%' escape) and so leaves a null or empty result as it is.
\* (bytes and wbwtPayload are bound as values, as the constants of the code.)
decodePayload(payloadInfo) ==
    IF payloadInfo.null THEN NullResult
    ELSE IF ~HASH_PAYLOAD_PATTERN(payloadInfo.payload) THEN NullResult
    ELSE IF payloadInfo.version = SubSeq(PREFIX_WBWT, 2, 3)
    THEN CHOOSE decompressed \in
           { IF bytes.thrown \/ wbwtPayload.status = "error" THEN NullResult
             ELSE IF wbwtPayload.status = "hang" THEN HangResult
             ELSE LET restored == wbwtDecompress(wbwtPayload.payload)
                  IN IF restored.thrown THEN NullResult ELSE TextResult(restored.text)
             : <<bytes, wbwtPayload>> \in
                 { <<b, deserializeWBWT(b.bytes)>> : b \in {fromBase64Url(payloadInfo.payload)} } }
           : TRUE
    ELSE decompressFromEncodedURIComponent(payloadInfo.payload)

buildBestHash(t) ==
    LET lzPayload == compressToEncodedURIComponent(t)
        wbwtEncoded == toBase64Url(serializeWBWT(wbwtCompress(t)))
    IN IF Len(t) <= WBWT_MAX_CHARS /\ Len(wbwtEncoded) < Len(lzPayload)
       THEN PREFIX_WBWT \o wbwtEncoded
       ELSE PREFIX_LZ \o lzPayload

(***************************************************************************)
(* Bounds and input domains                                                *)
(***************************************************************************)
MaxTextLen == 3

MaxTruncTextLen == 2

MaxMtfLen == 3

MaxOverlong == 11

MaxIdsLen == 4

\* The characters texts are drawn from: a, B, 1, space, newline, the control
\* prefix 0x1F, hyphen and U+FEFF (white space, three bytes in UTF-8).
Chars == {97, 66, 49, ChSpace, ChNewline, CONTROL_PREFIX, ChHyphen, ChBom}

SeqsUpTo(S, n) == UNION {[1..k -> S] : k \in 0..n}

Texts == SeqsUpTo(Chars, MaxTextLen)

\* "Hello HELLO hello\n"
HelloText ==
    <<72, 101, 108, 108, 111, ChSpace, 72, 69, 76, 76, 79, ChSpace,
      104, 101, 108, 108, 111, ChNewline>>

\* "word word word word"
WordsText ==
    <<119, 111, 114, 100, ChSpace, 119, 111, 114, 100, ChSpace,
      119, 111, 114, 100, ChSpace, 119, 111, 114, 100>>

\* Non-empty texts whose frames are cut: the short ones and the two samples.
TruncTexts ==
    (SeqsUpTo({97, 66, ChSpace}, MaxTruncTextLen) \ {<<>>}) \cup {HelloText, WordsText}

\* Dictionaries of hand-made payloads: sorted and unsorted, with a shared
\* prefix, with control markers, with an entry that starts with U+FEFF.
SampleDictionaries ==
    { <<>>,
      <<<<97>>>>,
      <<<<97>>, <<97, 98>>>>,
      <<<<98>>, <<97>>>>,
      <<TOKEN_WS_SPACE, <<50>>, <<97>>>>,
      <<<<ChBom, ChSpace>>>> }

SamplePrimaryIndexes == {0, 1, 200}

Payloads ==
    UNION {
      { [dictionary |-> d, primaryIndex |-> p, mtf |-> m] :
            p \in SamplePrimaryIndexes, m \in SeqsUpTo(0..Len(d), MaxMtfLen) }
      : d \in SampleDictionaries }

MagicBytes == pushUint32LE(WBWT_MAGIC)

\* Buffers for the header checks: every way to keep, zero or flip each magic
\* byte, cut to any length, followed by a version field and a tail.
HeaderSamples ==
    LET magics == { [i \in 1..4 |-> IF i \in keep THEN MagicBytes[i]
                                    ELSE IF i \in zero THEN 0 ELSE 255 - MagicBytes[i]]
                    : keep \in SUBSET (1..4), zero \in SUBSET (1..4) }
        versions == { <<v, 0, 0, 0>> : v \in 0..6 } \cup { <<4, 1, 0, 0>>, <<2, 0, 0, 128>> }
        tails == { <<>>, <<0, 0, 0, 0>>, <<1, 1, 0, 1, 2, 3>>, <<0, 1, 0>> }
    IN { m \o v \o t : m \in magics, v \in versions, t \in tails }
       \cup { SubSeq(MagicBytes, 1, k) : k \in 0..3 }

\* Frames with a correct header in which one varint field is n >= 10 bytes
\* that all carry the continuation bit 0x80, followed by the rest of the
\* buffer.  The fields before it say which field it is: dictCount,
\* tokenCount, primaryIndex, symbolCount (packedLength in version 3), or a
\* length inside the first dictionary entry.
OverlongVarint(n, first) == <<first>> \o [i \in 1..(n - 1) |-> 128]

OverlongFrames ==
    { MagicBytes \o pushUint32LE(version) \o before \o OverlongVarint(n, first) \o tail
      : version \in {2, 3, 4},
        before \in {<<>>, <<0>>, <<0, 0>>, <<0, 0, 0>>, <<1, 0, 0>>, <<1, 0, 0, 0>>,
                    <<1, 0, 0, 0, 0>>},
        n \in 10..MaxOverlong, first \in {128, 129}, tail \in {<<>>, <<0>>, <<0, 0, 0>>} }

BwtAlphabet == 4

IdArrays ==
    { Append(x, SENTINEL_ID) : x \in SeqsUpTo(1..(BwtAlphabet - 1), MaxIdsLen - 1) }

MaxSeqLen == 4

MaxAlphabet == 4

MaxZeroRun == 8

MaxStreamLen == 3

\* Number sequences over [0, A): all short ones, and zero runs of every
\* length up to MaxZeroRun before and after a value.
StageSequences(A) ==
    SeqsUpTo(0..(A - 1), MaxSeqLen)
    \cup { Zeros(k) \o (IF A > 1 THEN <<A - 1>> ELSE <<>>) \o Zeros(j)
           : k \in 0..MaxZeroRun, j \in {0, 1, MaxZeroRun} }

\* Normalized tokens: a word, a word it is a prefix of, and a marker.
TokenSamples == {<<97>>, <<97, 98>>, TOKEN_WS_SPACE}

TokenStreams == SeqsUpTo(TokenSamples, MaxStreamLen)

\* Notes for the URL hash: the short texts, and texts long enough for the
\* WBWT payload to be the shorter one: the alphabet and a full stop, twice;
\* the same after a byte order mark.
AlphabetText == [i \in 1..54 |-> IF i % 27 = 0 THEN 46 ELSE 96 + (i % 27)]

HashTexts == Texts \cup {AlphabetText, <<ChBom>> \o AlphabetText}

\* Inputs of the coder: an alphabet size and a non-empty sequence over it.
CoderInputs ==
    UNION { { <<A, x>> : x \in StageSequences(A) \ {<<>>} } : A \in 1..MaxAlphabet }

\* The alphabet of ENTROPY_MAX_TOTAL symbols, with its first and last symbol.
WideCoderInputs == { <<ENTROPY_MAX_TOTAL, <<ENTROPY_MAX_TOTAL - 1>>>> }

\* FenwickTree sizes, powers of two and not, and the largest total to which
\* add is called.
MaxFenwickSize == 5

MaxFenwickTotal == 9

NoResult == [status |-> "none", error |-> "", payload |-> EmptyPayload]

NoOutput == [thrown |-> FALSE, text |-> <<>>]

NoBwt == [lastColumn |-> <<>>, primaryIndex |-> 0]

(***************************************************************************)
(* State machine: one run of the pipeline on one input                     *)
(***************************************************************************)
\* No single stage has run.
StageIdle ==
    /\ alphabet = 0 /\ seqIn = <<>> /\ seqMid = <<>> /\ seqOut = <<>>
    /\ streams = <<>> /\ assigned = <<>>
    /\ rawTokens = <<>> /\ normTokens = <<>> /\ rendered = NoOutput

\* No model has been built and no coder started.
CoderIdle ==
    /\ fenwick = FenwickTree(0) /\ lookup = <<>>
    /\ encoder = <<>> /\ decoder = <<>>

\* The hook is not mounted.
SyncIdle ==
    /\ clock = 0 /\ timers = {} /\ debounceRef = 0 /\ textRef = <<>>
    /\ locationHash = <<>> /\ triggeredAt = 0 /\ hashEvents = 0

\* No hash has been built.
HashIdle == hash = <<>> /\ info = NoPayloadInfo /\ note = NullResult

\* wbwtCompress(text)
Compress ==
    /\ pc = "text"
    /\ payload' = wbwtCompress(text)
    /\ pc' = "compressed"
    /\ UNCHANGED <<hashVars, coderVars, syncVars,
                   text, frame, origin, decoded, output, bwtIn, bwtOut, bwtBack,
                   stageVars>>

\* wbwtDecompress(payload) on the payload just built
DecompressPayload ==
    /\ pc = "compressed"
    /\ output' = wbwtDecompress(payload)
    /\ pc' = "restored"
    /\ UNCHANGED <<hashVars, coderVars, syncVars,
                   text, payload, frame, origin, decoded, bwtIn, bwtOut, bwtBack,
                   stageVars>>

\* serializeWBWT(payload)
Serialize ==
    /\ pc = "compressed"
    /\ frame' = serializeWBWT(payload)
    /\ origin' = "v4"
    /\ pc' = "serialized"
    /\ UNCHANGED <<hashVars, coderVars, syncVars,
                   text, payload, decoded, output, bwtIn, bwtOut, bwtBack,
                   stageVars>>

\* A version 2 or 3 frame of the payload
BuildLegacy ==
    /\ pc = "compressed"
    /\ \E version \in {2, 3} :
          /\ frame' = LegacyFrame(payload, version)
          /\ origin' = IF version = 2 THEN "v2" ELSE "v3"
    /\ pc' = "serialized"
    /\ UNCHANGED <<hashVars, coderVars, syncVars,
                   text, payload, decoded, output, bwtIn, bwtOut, bwtBack,
                   stageVars>>

\* The frame cut to a proper prefix
Truncate ==
    /\ pc = "serialized"
    /\ origin = "v4"
    /\ \E k \in 0..(Len(frame) - 1) : frame' = SubSeq(frame, 1, k)
    /\ origin' = "truncated"
    /\ UNCHANGED <<hashVars, coderVars, syncVars,
                   pc, text, payload, decoded, output, bwtIn, bwtOut, bwtBack,
                   stageVars>>

\* deserializeWBWT(frame)
Deserialize ==
    /\ pc = "serialized"
    /\ decoded' = deserializeWBWT(frame)
    /\ pc' = "deserialized"
    /\ UNCHANGED <<hashVars, coderVars, syncVars,
                   text, payload, frame, origin, output, bwtIn, bwtOut, bwtBack,
                   stageVars>>

\* wbwtDecompress of the payload deserializeWBWT returned
DecompressDecoded ==
    /\ pc = "deserialized"
    /\ decoded.status = "ok"
    /\ output' = wbwtDecompress(decoded.payload)
    /\ pc' = "done"
    /\ UNCHANGED <<hashVars, coderVars, syncVars,
                   text, payload, frame, origin, decoded, bwtIn, bwtOut, bwtBack,
                   stageVars>>

\* burrowsWheelerTransform(bwtIn)
Forward ==
    /\ pc = "ids"
    /\ bwtOut' = burrowsWheelerTransform(bwtIn)
    /\ pc' = "transformed"
    /\ UNCHANGED <<hashVars, coderVars, syncVars,
                   text, payload, frame, origin, decoded, output, bwtIn, bwtBack,
                   stageVars>>

\* inverseBurrowsWheelerTransform(lastColumn, primaryIndex, alphabetSize)
Inverse ==
    /\ pc = "transformed"
    /\ bwtBack' = inverseBurrowsWheelerTransform(bwtOut.lastColumn, bwtOut.primaryIndex,
                                                 BwtAlphabet)
    /\ pc' = "inverted"
    /\ UNCHANGED <<hashVars, coderVars, syncVars,
                   text, payload, frame, origin, decoded, output, bwtIn, bwtOut,
                   stageVars>>

\* moveToFrontEncode(seqIn, alphabet)
MtfEncode ==
    /\ pc = "mtf"
    /\ seqMid' = moveToFrontEncode(seqIn, alphabet)
    /\ pc' = "mtf-coded"
    /\ UNCHANGED <<hashVars, coderVars, syncVars,
                   text, payload, frame, origin, decoded, output, bwtIn, bwtOut, bwtBack,
                   alphabet, seqIn, seqOut, streams, assigned, rawTokens, normTokens,
                   rendered>>

\* moveToFrontDecode(seqMid, alphabet)
MtfDecode ==
    /\ pc = "mtf-coded"
    /\ seqOut' = moveToFrontDecode(seqMid, alphabet)
    /\ pc' = "mtf-decoded"
    /\ UNCHANGED <<hashVars, coderVars, syncVars,
                   text, payload, frame, origin, decoded, output, bwtIn, bwtOut, bwtBack,
                   alphabet, seqIn, seqMid, streams, assigned, rawTokens, normTokens,
                   rendered>>

\* mtfToSymbols(seqIn)
RunsEncode ==
    /\ pc = "runs"
    /\ seqMid' = mtfToSymbols(seqIn)
    /\ pc' = "runs-coded"
    /\ UNCHANGED <<hashVars, coderVars, syncVars,
                   text, payload, frame, origin, decoded, output, bwtIn, bwtOut, bwtBack,
                   alphabet, seqIn, seqOut, streams, assigned, rawTokens, normTokens,
                   rendered>>

\* symbolsToMtf(seqMid, seqIn.length)
RunsDecode ==
    /\ pc = "runs-coded"
    /\ seqOut' = symbolsToMtf(seqMid, Len(seqIn))
    /\ pc' = "runs-decoded"
    /\ UNCHANGED <<hashVars, coderVars, syncVars,
                   text, payload, frame, origin, decoded, output, bwtIn, bwtOut, bwtBack,
                   alphabet, seqIn, seqMid, streams, assigned, rawTokens, normTokens,
                   rendered>>

\* entropyEncodeSymbols(seqIn, alphabet)
EntropyEncode ==
    /\ pc = "entropy"
    /\ seqMid' = entropyEncodeSymbols(seqIn, alphabet)
    /\ pc' = "entropy-coded"
    /\ UNCHANGED <<hashVars, coderVars, syncVars,
                   text, payload, frame, origin, decoded, output, bwtIn, bwtOut, bwtBack,
                   alphabet, seqIn, seqOut, streams, assigned, rawTokens, normTokens,
                   rendered>>

\* entropyDecodeSymbols(seqMid, seqIn.length, alphabet)
EntropyDecode ==
    /\ pc = "entropy-coded"
    /\ seqOut' = entropyDecodeSymbols(seqMid, Len(seqIn), alphabet)
    /\ pc' = "entropy-decoded"
    /\ UNCHANGED <<hashVars, coderVars, syncVars,
                   text, payload, frame, origin, decoded, output, bwtIn, bwtOut, bwtBack,
                   alphabet, seqIn, seqMid, streams, assigned, rawTokens, normTokens,
                   rendered>>

\* tokensToIds on each of the two streams
AssignIds ==
    /\ pc = "tokens"
    /\ assigned' = <<tokensToIds(streams[1]), tokensToIds(streams[2])>>
    /\ pc' = "assigned"
    /\ UNCHANGED <<hashVars, coderVars, syncVars,
                   text, payload, frame, origin, decoded, output, bwtIn, bwtOut, bwtBack,
                   alphabet, seqIn, seqMid, seqOut, streams, rawTokens, normTokens,
                   rendered>>

\* tokenize(text)
Tokenize ==
    /\ pc = "text"
    /\ rawTokens' = tokenize(text)
    /\ pc' = "tokenized"
    /\ UNCHANGED <<hashVars, coderVars, syncVars,
                   text, payload, frame, origin, decoded, output, bwtIn, bwtOut, bwtBack,
                   alphabet, seqIn, seqMid, seqOut, streams, assigned, normTokens,
                   rendered>>

\* normalizeTokens(rawTokens)
Normalize ==
    /\ pc = "tokenized"
    /\ normTokens' = normalizeTokens(rawTokens)
    /\ pc' = "normalized"
    /\ UNCHANGED <<hashVars, coderVars, syncVars,
                   text, payload, frame, origin, decoded, output, bwtIn, bwtOut, bwtBack,
                   alphabet, seqIn, seqMid, seqOut, streams, assigned, rawTokens,
                   rendered>>

\* renderTokens(normTokens)
Render ==
    /\ pc = "normalized"
    /\ rendered' = renderTokens(normTokens)
    /\ pc' = "rendered"
    /\ UNCHANGED <<hashVars, coderVars, syncVars,
                   text, payload, frame, origin, decoded, output, bwtIn, bwtOut, bwtBack,
                   alphabet, seqIn, seqMid, seqOut, streams, assigned, rawTokens,
                   normTokens>>

\* buildBestHash(text)
BuildBestHash ==
    /\ pc = "note"
    /\ hash' = buildBestHash(text)
    /\ pc' = "hashed"
    /\ UNCHANGED <<text, payload, frame, origin, decoded, output, bwtIn, bwtOut, bwtBack,
                   stageVars, coderVars, syncVars, info, note>>

\* extractPayloadFromHash(hash)
ExtractPayload ==
    /\ pc = "hashed"
    /\ info' = extractPayloadFromHash(hash)
    /\ pc' = "extracted"
    /\ UNCHANGED <<text, payload, frame, origin, decoded, output, bwtIn, bwtOut, bwtBack,
                   stageVars, coderVars, syncVars, hash, note>>

\* decodePayload(info)
DecodePayload ==
    /\ pc = "extracted"
    /\ note' = decodePayload(info)
    /\ pc' = "hash-decoded"
    /\ UNCHANGED <<text, payload, frame, origin, decoded, output, bwtIn, bwtOut, bwtBack,
                   stageVars, coderVars, syncVars, hash, info>>

\* model.add(i, 1)
FenwickAddOne ==
    /\ pc = "model"
    /\ fenwick.total < MaxFenwickTotal
    /\ \E i \in 1..fenwick.size :
          /\ fenwick' = FenwickAdd(fenwick, i, 1)
          /\ lookup' = <<"add", i>>
    /\ UNCHANGED <<pc, text, payload, frame, origin, decoded, output, bwtIn, bwtOut, bwtBack,
                   stageVars, hashVars, encoder, decoder, syncVars>>

\* model.rescale()
FenwickRescaleCall ==
    /\ pc = "model"
    /\ fenwick' = FenwickRescale(fenwick)
    /\ lookup' = <<"rescale">>
    /\ UNCHANGED <<pc, text, payload, frame, origin, decoded, output, bwtIn, bwtOut, bwtBack,
                   stageVars, hashVars, encoder, decoder, syncVars>>

\* model.findByCumulative(v) for a v below the total
FenwickFind ==
    /\ pc = "model"
    /\ \E v \in 0..(fenwick.total - 1) :
          lookup' = <<"find", v, FenwickFindByCumulative(fenwick, v)>>
    /\ pc' = "found"
    /\ UNCHANGED <<text, payload, frame, origin, decoded, output, bwtIn, bwtOut, bwtBack,
                   stageVars, hashVars, fenwick, encoder, decoder, syncVars>>

\* One turn of the loop of entropyEncodeSymbols: encodeSymbol, add, rescale.
\* models keeps the model each symbol was coded with.
EncodeSymbolStep ==
    /\ pc = "coding"
    /\ encoder.count < Len(seqIn)
    /\ LET symbolIndex == seqIn[encoder.count + 1] + 1
       IN encoder' = [model |-> ModelUpdate(encoder.model, symbolIndex),
                      coder |-> encodeSymbol(encoder.coder, encoder.model, symbolIndex),
                      count |-> encoder.count + 1,
                      models |-> Append(encoder.models, encoder.model)]
    /\ UNCHANGED <<pc, text, payload, frame, origin, decoded, output, bwtIn, bwtOut, bwtBack,
                   stageVars, hashVars, fenwick, lookup, decoder, syncVars>>

\* The end of entropyEncodeSymbols (encoder.finish, writer.finish) and the
\* start of entropyDecodeSymbols on its bytes.
EncodeFinish ==
    /\ pc = "coding"
    /\ encoder.count = Len(seqIn)
    /\ seqMid' = BitWriterFinish(EncoderFinish(encoder.coder).bits)
    /\ decoder' = [model |-> FenwickReset(FenwickTree(alphabet), 1),
                   coder |-> ArithmeticDecoder(seqMid'),
                   count |-> 0]
    /\ pc' = "decoding"
    /\ UNCHANGED <<text, payload, frame, origin, decoded, output, bwtIn, bwtOut, bwtBack,
                   alphabet, seqIn, seqOut, streams, assigned, rawTokens, normTokens,
                   rendered, hashVars, fenwick, lookup, encoder, syncVars>>

\* One turn of the loop of entropyDecodeSymbols: decodeSymbol, add, rescale.
DecodeSymbolStep ==
    /\ pc = "decoding"
    /\ decoder.count < Len(seqIn)
    /\ LET d == decodeSymbol(decoder.coder, decoder.model, seqMid)
       IN /\ decoder' = [model |-> ModelUpdate(decoder.model, d.symbolIndex),
                         coder |-> d.decoder,
                         count |-> decoder.count + 1]
          /\ seqOut' = Append(seqOut, d.symbolIndex - 1)
    /\ UNCHANGED <<pc, text, payload, frame, origin, decoded, output, bwtIn, bwtOut, bwtBack,
                   alphabet, seqIn, seqMid, streams, assigned, rawTokens, normTokens,
                   rendered, hashVars, fenwick, lookup, encoder, syncVars>>

\* Text pipeline: compress, decompress, serialize, deserialize, decompress;
\* and its first stages alone: tokenize, normalize, render.
Init ==
    /\ pc = "text"
    /\ \E t \in Texts : text = t
    /\ payload = EmptyPayload /\ frame = <<>> /\ origin = "none" /\ decoded = NoResult
    /\ output = NoOutput /\ bwtIn = <<>> /\ bwtOut = NoBwt /\ bwtBack = <<>>
    /\ StageIdle /\ HashIdle /\ CoderIdle /\ SyncIdle

Next ==
    Compress \/ DecompressPayload \/ Serialize \/ Deserialize \/ DecompressDecoded
    \/ Tokenize \/ Normalize \/ Render

Spec == Init /\ [][Next]_vars

\* Truncated frames of non-empty texts.
InitTruncate ==
    /\ pc = "text"
    /\ \E t \in TruncTexts : text = t
    /\ payload = EmptyPayload /\ frame = <<>> /\ origin = "none" /\ decoded = NoResult
    /\ output = NoOutput /\ bwtIn = <<>> /\ bwtOut = NoBwt /\ bwtBack = <<>>
    /\ StageIdle /\ HashIdle /\ CoderIdle /\ SyncIdle

NextTruncate == Compress \/ Serialize \/ Truncate \/ Deserialize

SpecTruncate == InitTruncate /\ [][NextTruncate]_vars

\* Hand-made payloads, in the three container versions.
InitPayload ==
    /\ pc = "compressed"
    /\ \E p \in Payloads : payload = p
    /\ text = <<>> /\ frame = <<>> /\ origin = "none" /\ decoded = NoResult
    /\ output = NoOutput /\ bwtIn = <<>> /\ bwtOut = NoBwt /\ bwtBack = <<>>
    /\ StageIdle /\ HashIdle /\ CoderIdle /\ SyncIdle

NextPayload ==
    Serialize \/ BuildLegacy \/ Deserialize \/ DecompressPayload \/ DecompressDecoded

SpecPayload == InitPayload /\ [][NextPayload]_vars

\* Hand-made buffers given to deserializeWBWT.
InitBuffer ==
    /\ pc = "serialized"
    /\ \/ origin = "raw" /\ \E f \in HeaderSamples : frame = f
       \/ origin = "overlong" /\ \E f \in OverlongFrames : frame = f
    /\ text = <<>> /\ payload = EmptyPayload /\ decoded = NoResult
    /\ output = NoOutput /\ bwtIn = <<>> /\ bwtOut = NoBwt /\ bwtBack = <<>>
    /\ StageIdle /\ HashIdle /\ CoderIdle /\ SyncIdle

NextBuffer == Deserialize \/ DecompressDecoded

SpecBuffer == InitBuffer /\ [][NextBuffer]_vars

\* The transform and its inverse on id arrays that end in the sentinel.
InitBwt ==
    /\ pc = "ids"
    /\ \E x \in IdArrays : bwtIn = x
    /\ text = <<>> /\ payload = EmptyPayload /\ frame = <<>> /\ origin = "none"
    /\ decoded = NoResult /\ output = NoOutput /\ bwtOut = NoBwt /\ bwtBack = <<>>
    /\ StageIdle /\ HashIdle /\ CoderIdle /\ SyncIdle

NextBwt == Forward \/ Inverse

SpecBwt == InitBwt /\ [][NextBwt]_vars

\* The single stages, each on its own input.
InitStages ==
    /\ \/ /\ pc \in {"mtf", "runs", "entropy"}
          /\ \E A \in 1..MaxAlphabet : alphabet = A /\ \E x \in StageSequences(A) : seqIn = x
          /\ streams = <<>>
       \/ /\ pc = "tokens"
          /\ \E a \in TokenStreams, b \in TokenStreams : streams = <<a, b>>
          /\ alphabet = 0 /\ seqIn = <<>>
    /\ seqMid = <<>> /\ seqOut = <<>> /\ assigned = <<>>
    /\ rawTokens = <<>> /\ normTokens = <<>> /\ rendered = NoOutput
    /\ text = <<>> /\ payload = EmptyPayload /\ frame = <<>> /\ origin = "none"
    /\ decoded = NoResult /\ output = NoOutput
    /\ bwtIn = <<>> /\ bwtOut = NoBwt /\ bwtBack = <<>>
    /\ HashIdle /\ CoderIdle /\ SyncIdle

NextStages ==
    MtfEncode \/ MtfDecode \/ RunsEncode \/ RunsDecode \/ EntropyEncode \/ EntropyDecode
    \/ AssignIds

SpecStages == InitStages /\ [][NextStages]_vars

\* A note written to the URL hash and read back.
InitHash ==
    /\ pc = "note"
    /\ \E t \in HashTexts : text = t
    /\ payload = EmptyPayload /\ frame = <<>> /\ origin = "none" /\ decoded = NoResult
    /\ output = NoOutput /\ bwtIn = <<>> /\ bwtOut = NoBwt /\ bwtBack = <<>>
    /\ StageIdle /\ HashIdle /\ CoderIdle /\ SyncIdle

NextHash == BuildBestHash \/ ExtractPayload \/ DecodePayload

SpecHash == InitHash /\ [][NextHash]_vars

\* entropyEncodeSymbols and entropyDecodeSymbols symbol by symbol, on one of
\* the given inputs: an alphabet size with a non-empty sequence.
InitCoderOn(inputs) ==
    /\ pc = "coding"
    /\ \E input \in inputs :
          /\ alphabet = input[1]
          /\ seqIn = input[2]
          /\ encoder = [model |-> FenwickReset(FenwickTree(input[1]), 1),
                        coder |-> ArithmeticEncoder, count |-> 0, models |-> <<>>]
    /\ decoder = <<>> /\ fenwick = FenwickTree(0) /\ lookup = <<>>
    /\ seqMid = <<>> /\ seqOut = <<>> /\ streams = <<>> /\ assigned = <<>>
    /\ rawTokens = <<>> /\ normTokens = <<>> /\ rendered = NoOutput
    /\ text = <<>> /\ payload = EmptyPayload /\ frame = <<>> /\ origin = "none"
    /\ decoded = NoResult /\ output = NoOutput
    /\ bwtIn = <<>> /\ bwtOut = NoBwt /\ bwtBack = <<>>
    /\ HashIdle /\ SyncIdle

\* Small alphabets.
InitCoder == InitCoderOn(CoderInputs)

NextCoder == EncodeSymbolStep \/ EncodeFinish \/ DecodeSymbolStep

SpecCoder == InitCoder /\ [][NextCoder]_vars

\* Small alphabets, and an alphabet as large as ENTROPY_MAX_TOTAL.
InitCoderWide == InitCoderOn(CoderInputs \cup WideCoderInputs)

SpecCoderWide == InitCoderWide /\ [][NextCoder]_vars

\* A FenwickTree after reset(1), under add(i, 1), rescale() and
\* findByCumulative(v).
InitFenwick ==
    /\ pc = "model"
    /\ \E size \in 1..MaxFenwickSize : fenwick = FenwickReset(FenwickTree(size), 1)
    /\ lookup = <<>> /\ encoder = <<>> /\ decoder = <<>>
    /\ text = <<>> /\ payload = EmptyPayload /\ frame = <<>> /\ origin = "none"
    /\ decoded = NoResult /\ output = NoOutput
    /\ bwtIn = <<>> /\ bwtOut = NoBwt /\ bwtBack = <<>>
    /\ StageIdle /\ HashIdle /\ SyncIdle

NextFenwick == FenwickAddOne \/ FenwickRescaleCall \/ FenwickFind

SpecFenwick == InitFenwick /\ [][NextFenwick]_vars

(***************************************************************************)
(* useHashSync: the debounced save of the text into the URL hash           *)
(***************************************************************************)
\* The delay given to window.setTimeout in triggerSave.
DEBOUNCE_MS == 600

\* Texts the caller puts into textRef.current.
SyncTexts == {<<>>, <<97>>, <<97, 66>>}

\* Values window.location.hash takes when the browser moves within the
\* page: hashes of texts, the empty hash, and "#v1." with no payload.
SyncHashes == { buildBestHash(t) : t \in SyncTexts } \cup {<<>>, PREFIX_LZ}

\* Texts given to tryLoadFromText: a hash, a payload without '#', a URL with
\* white space around it, a text without payload, and a URL with nothing
\* between "http://" and '#'.
SyncPastes ==
    { buildBestHash(<<97>>),
      Tail(buildBestHash(<<97, 66>>)),
      <<32, 104, 116, 116, 112, 115, 58, 47, 47, 113, 47>> \o buildBestHash(<<97, 66>>)
          \o <<10>>,
      <<97>>,
      <<104, 116, 116, 112, 58, 47, 47>> \o buildBestHash(<<97>>) }

\* Time passes in steps of TimeStep ms up to MaxClock; at most MaxTriggers
\* calls of triggerSave; at most MaxHashEvents hashchange events wait for
\* their listener.
TimeStep == 300

MaxClock == 1800

MaxTriggers == 3

MaxHashEvents == 1

\* clearTimeout(id): the timer with that id, if still pending, is dropped.
clearTimeout(pending, id) == { t \in pending : t.id # id }

\* window.setTimeout(callback, delay) at time now: a pending timer under a
\* fresh id.
setTimeout(pending, id, now, delay) == pending \cup {[id |-> id, due |-> now + delay]}

\* triggerSave without the clearTimeout of the timer set before.
triggerSaveKeepTimer(pending, ref, now) ==
    [timers |-> setTimeout(pending, ref + 1, now, DEBOUNCE_MS), debounceRef |-> ref + 1]

\* triggerSave at time now; ref is debounceRef.current with 0 for null.  Timer
\* ids are positive and grow; the hook is the only caller of setTimeout
\* here, so the id after ref is fresh.
triggerSave(pending, ref, now) ==
    LET cleared == IF ref # 0 THEN clearTimeout(pending, ref) ELSE pending
    IN [timers |-> setTimeout(cleared, ref + 1, now, DEBOUNCE_MS), debounceRef |-> ref + 1]

buildHashFromPayload(version, encoded) ==
    (IF version = SubSeq(PREFIX_WBWT, 2, 3) THEN PREFIX_WBWT ELSE PREFIX_LZ) \o encoded

\* window.location.hash after replaceUrlHash(h).
replaceUrlHash(current, h) == IF current = h THEN current ELSE h

\* String.prototype.trim
Trim(s) ==
    LET kept == { i \in 1..Len(s) : ~IsSpace(s[i]) }
    IN IF kept = {} THEN <<>>
       ELSE SubSeq(s, CHOOSE i \in kept : \A j \in kept : i <= j,
                   CHOOSE i \in kept : \A j \in kept : i >= j)

\* The '#' of a match of URL_HASH_PATTERN: the payload and the version have
\* no '#', so it is the last '#' of s (0: none).
LastHashMark(s) ==
    LET marks == { i \in 1..Len(s) : s[i] = 35 }
    IN IF marks = {} THEN 0 ELSE CHOOSE i \in marks : \A j \in marks : i >= j

\* /^(?:https?:\/\/\S+)?#(v1|w4)\.([A-Za-z0-9+\-_$]+)$/
URL_HASH_PATTERN(s) ==
    LET k == LastHashMark(s)
        before == SubSeq(s, 1, k - 1)
        http == <<104, 116, 116, 112, 58, 47, 47>>
        https == <<104, 116, 116, 112, 115, 58, 47, 47>>
        scheme(x) == Len(before) > Len(x) /\ SubSeq(before, 1, Len(x)) = x
    IN /\ k > 0
       /\ DIRECT_HASH_PATTERN(SubSeq(s, k + 1, Len(s)))
       /\ \/ before = <<>>
          \/ /\ scheme(http) \/ scheme(https)
             /\ \A i \in 1..Len(before) : ~IsSpace(before[i])

extractPayloadFromText(t) ==
    LET trimmed == Trim(t)
        matched == IF URL_HASH_PATTERN(trimmed)
                   THEN SubSeq(trimmed, LastHashMark(trimmed) + 1, Len(trimmed))
                   ELSE trimmed
    IN IF URL_HASH_PATTERN(trimmed) \/ DIRECT_HASH_PATTERN(trimmed)
       THEN [null |-> FALSE, version |-> SubSeq(matched, 1, 2),
             payload |-> SubSeq(matched, 4, Len(matched))]
       ELSE NoPayloadInfo

\* applyPayload(payloadInfo) with textRef.current = current and
\* window.location.hash = location: what the two are afterwards.  A call
\* that returns false, throws or does not end leaves both.
applyPayload(payloadInfo, current, location) ==
    CHOOSE r \in
        { IF decompressed.null \/ decompressed.thrown \/ decompressed.hangs
          THEN [textRef |-> current, locationHash |-> location]
          ELSE [textRef |-> decompressed.text,
                locationHash |->
                    replaceUrlHash(location,
                                   buildHashFromPayload(payloadInfo.version,
                                                        payloadInfo.payload))]
          : decompressed \in {decodePayload(payloadInfo)} } : TRUE

\* window.location.hash after saveToHash() with textRef.current = current.
saveToHash(current, location) == replaceUrlHash(location, buildBestHash(current))

\* The caller writes the edited text into textRef.current.
EditText ==
    /\ pc = "mounted"
    /\ \E t \in SyncTexts : t # textRef /\ textRef' = t
    /\ UNCHANGED <<hashVars, coderVars, stageVars, hashEvents, clock, timers, debounceRef,
                   locationHash, triggeredAt,
                   text, payload, frame, origin, decoded, output, bwtIn, bwtOut, bwtBack, pc>>

\* triggerSave()
TriggerSave ==
    /\ pc = "mounted"
    /\ debounceRef < MaxTriggers
    /\ LET r == triggerSave(timers, debounceRef, clock)
       IN timers' = r.timers /\ debounceRef' = r.debounceRef
    /\ triggeredAt' = clock
    /\ UNCHANGED <<hashVars, coderVars, stageVars, hashEvents, clock, textRef, locationHash,
                   text, payload, frame, origin, decoded, output, bwtIn, bwtOut, bwtBack, pc>>

\* Time passes; a timer that is due may still be pending afterwards.
Advance ==
    /\ pc \in {"mounted", "unmounted"}
    /\ clock + TimeStep <= MaxClock
    /\ clock' = clock + TimeStep
    /\ UNCHANGED <<hashVars, coderVars, stageVars, hashEvents, timers, debounceRef, textRef,
                   locationHash, triggeredAt,
                   text, payload, frame, origin, decoded, output, bwtIn, bwtOut, bwtBack, pc>>

\* A pending timer that is due runs its callback, saveToHash().
TimerFires ==
    /\ pc \in {"mounted", "unmounted"}
    /\ \E t \in timers :
          /\ t.due <= clock
          /\ timers' = timers \ {t}
    /\ locationHash' = saveToHash(textRef, locationHash)
    /\ UNCHANGED <<hashVars, coderVars, stageVars, hashEvents, clock, debounceRef, textRef,
                   triggeredAt,
                   text, payload, frame, origin, decoded, output, bwtIn, bwtOut, bwtBack, pc>>

\* The browser moves to another hash within the page: window.location.hash
\* changes and a hashchange event waits for its listener.
Navigate ==
    /\ pc = "mounted"
    /\ hashEvents < MaxHashEvents
    /\ \E h \in SyncHashes \ {locationHash} : locationHash' = h
    /\ hashEvents' = hashEvents + 1
    /\ UNCHANGED <<hashVars, coderVars, stageVars, clock, timers, debounceRef, textRef,
                   triggeredAt,
                   text, payload, frame, origin, decoded, output, bwtIn, bwtOut, bwtBack, pc>>

\* loadFromHash() as the hashchange listener: applyPayload of the payload in
\* the hash the window has when the listener runs.
LoadFromHash ==
    /\ pc = "mounted"
    /\ hashEvents > 0
    /\ hashEvents' = hashEvents - 1
    /\ \E payloadInfo \in {extractPayloadFromHash(locationHash)} :
       \E r \in {IF payloadInfo.null
                 THEN [textRef |-> textRef, locationHash |-> locationHash]
                 ELSE applyPayload(payloadInfo, textRef, locationHash)} :
          textRef' = r.textRef /\ locationHash' = r.locationHash
    /\ UNCHANGED <<hashVars, coderVars, stageVars, clock, timers, debounceRef, triggeredAt,
                   text, payload, frame, origin, decoded, output, bwtIn, bwtOut, bwtBack, pc>>

\* tryLoadFromText(t), the function the hook returns to its caller.
TryLoadFromText ==
    /\ pc = "mounted"
    /\ \E t \in SyncPastes :
       \E payloadInfo \in {extractPayloadFromText(t)} :
       \E r \in {IF payloadInfo.null
                 THEN [textRef |-> textRef, locationHash |-> locationHash]
                 ELSE applyPayload(payloadInfo, textRef, locationHash)} :
          textRef' = r.textRef /\ locationHash' = r.locationHash
    /\ UNCHANGED <<hashVars, coderVars, stageVars, clock, timers, debounceRef, triggeredAt,
                   hashEvents,
                   text, payload, frame, origin, decoded, output, bwtIn, bwtOut, bwtBack, pc>>

\* The cleanups of the effects when the component unmounts: the pending
\* timer is cleared and the hashchange listener removed.
Unmount ==
    /\ pc = "mounted"
    /\ timers' = IF debounceRef # 0 THEN clearTimeout(timers, debounceRef) ELSE timers
    /\ hashEvents' = 0
    /\ pc' = "unmounted"
    /\ UNCHANGED <<hashVars, coderVars, stageVars, clock, debounceRef, textRef,
                   locationHash, triggeredAt,
                   text, payload, frame, origin, decoded, output, bwtIn, bwtOut, bwtBack>>

\* The hook mounted on a page without a hash: loadFromHash found nothing.
InitSync ==
    /\ pc = "mounted"
    /\ SyncIdle
    /\ text = <<>> /\ payload = EmptyPayload /\ frame = <<>> /\ origin = "none"
    /\ decoded = NoResult /\ output = NoOutput
    /\ bwtIn = <<>> /\ bwtOut = NoBwt /\ bwtBack = <<>>
    /\ StageIdle /\ HashIdle /\ CoderIdle

NextSync ==
    \/ EditText \/ TriggerSave \/ Advance \/ TimerFires
    \/ Navigate \/ LoadFromHash \/ TryLoadFromText \/ Unmount

SpecSync == InitSync /\ [][NextSync]_vars

(***************************************************************************)
(* Properties                                                              *)
(***************************************************************************)
\* C1: for every text t, wbwtDecompress(wbwtCompress(t)) returns t.
RoundTripText == pc = "restored" => (~output.thrown /\ output.text = text)

\* C2: for every text t, deserializeWBWT(serializeWBWT(wbwtCompress(t))) returns
\* a payload with the dictionary, primaryIndex and mtf of wbwtCompress(t).
RoundTripFrame ==
    (pc = "deserialized" /\ origin = "v4")
        => (decoded.status = "ok" /\ decoded.payload = payload)

\* C3: the version 2 frame and the version 3 frame of every payload deserialize
\* to a payload with the same dictionary, primaryIndex and mtf.
RoundTripLegacy ==
    (pc = "deserialized" /\ origin \in {"v2", "v3"})
        => (decoded.status = "ok" /\ decoded.payload = payload)

\* C4: deserializeWBWT throws, and returns no payload, for every buffer whose
\* first four bytes are not 54 57 42 57 and for every buffer with that magic
\* whose 32-bit version field is not 2, 3 or 4.
RejectsBadHeader ==
    LET badMagic == Len(frame) < 4 \/ SubSeq(frame, 1, 4) # <<84, 87, 66, 87>>
        badVersion ==
            /\ ~badMagic
            /\ ~(Len(frame) >= 8
                 /\ SubSeq(frame, 5, 8)
                      \in {<<2, 0, 0, 0>>, <<3, 0, 0, 0>>, <<4, 0, 0, 0>>})
    IN (pc = "deserialized" /\ (badMagic \/ badVersion))
          => (decoded.status = "error" /\ decoded.payload = EmptyPayload)

\* A buffer with the right magic and version 5 has been rejected.
RejectsBadHeaderWitness ==
    /\ pc = "deserialized"
    /\ Len(frame) >= 8
    /\ SubSeq(frame, 1, 4) = <<84, 87, 66, 87>>
    /\ SubSeq(frame, 5, 8) = <<5, 0, 0, 0>>
    /\ decoded.status = "error"

\* C5: deserializeWBWT throws for every proper prefix of the frame of a
\* non-empty text.
RejectsTruncated ==
    (pc = "deserialized" /\ origin = "truncated") => decoded.status = "error"

\* C6: deserializeWBWT throws when a varint field of the frame is 10 or more
\* bytes that all carry the continuation bit.
RejectsOverlongVarint ==
    (pc = "deserialized" /\ origin = "overlong") => decoded.status = "error"

\* C7: the output of serializeWBWT starts with 54 57 42 57, then the u32 LE
\* version 4, then the varints dictCount = |dictionary|, tokenCount =
\* mtf.length, primaryIndex and symbolCount = |mtfToSymbols(mtf)|, in this order.
HeaderLayout ==
    (pc = "serialized" /\ origin = "v4")
        => LET header == <<84, 87, 66, 87, 4, 0, 0, 0>>
                         \o writeVarint(Len(payload.dictionary))
                         \o writeVarint(Len(payload.mtf))
                         \o writeVarint(payload.primaryIndex)
                         \o writeVarint(Len(mtfToSymbols(payload.mtf)))
           IN Len(frame) >= Len(header) /\ SubSeq(frame, 1, Len(header)) = header

\* A payload whose four fields differ, primaryIndex taking two bytes, has
\* been serialized.
HeaderLayoutWitness ==
    /\ pc = "serialized" /\ origin = "v4"
    /\ Len(payload.dictionary) = 3 /\ Len(payload.mtf) = 2
    /\ payload.primaryIndex = 200
    /\ Len(mtfToSymbols(payload.mtf)) = 1
    /\ SubSeq(frame, 9, 13) = <<3, 2, 200, 1, 1>>

\* C8 as stated: serializeWBWT(wbwtCompress("")) is exactly 14 bytes long.
EmptyFrameFourteen ==
    (pc = "serialized" /\ origin = "v4" /\ text = <<>>) => Len(frame) = 14

\* C8: serializeWBWT(wbwtCompress("")) is exactly 12 bytes long: the magic,
\* the version 4 and four one-byte zero varints.
EmptyFrameTwelve ==
    (pc = "serialized" /\ origin = "v4" /\ text = <<>>)
        => frame = <<84, 87, 66, 87, 4, 0, 0, 0, 0, 0, 0, 0>>

\* The empty text has been compressed and serialized.
EmptyFrameWitness ==
    pc = "serialized" /\ origin = "v4" /\ text = <<>> /\ payload = EmptyPayload
    /\ Len(frame) = 12

\* C9: wbwtDecompress returns "" whenever the dictionary is empty or the mtf
\* has length zero, whatever primaryIndex is; a version 4 frame with
\* dictCount = 0 and tokenCount = 0 deserializes and decompresses to "".
EmptyDecompress ==
    /\ (pc = "restored" /\ (payload.dictionary = <<>> \/ payload.mtf = <<>>))
          => output = [thrown |-> FALSE, text |-> <<>>]
    /\ (pc \in {"deserialized", "done"} /\ origin = "v4"
        /\ SubSeq(frame, 9, 10) = <<0, 0>>)
          => /\ decoded.status = "ok"
             /\ pc = "done" => output = [thrown |-> FALSE, text |-> <<>>]

\* A payload with an empty dictionary, a non-empty mtf and a non-zero
\* primaryIndex has been decompressed.
EmptyDecompressWitness ==
    /\ pc = "restored"
    /\ payload.dictionary = <<>> /\ payload.mtf # <<>> /\ payload.primaryIndex = 200
    /\ output = [thrown |-> FALSE, text |-> <<>>]

\* C10: for every id array x that ends in the sentinel,
\* inverseBurrowsWheelerTransform applied to burrowsWheelerTransform(x)
\* returns x element by element.
RoundTripBwt == pc = "inverted" => bwtBack = bwtIn

\* C11: moveToFrontEncode(s, A) has the length of s and values in [0, A), and
\* moveToFrontDecode of it returns s.
MtfRoundTrip ==
    /\ pc \in {"mtf-coded", "mtf-decoded"}
          => /\ Len(seqMid) = Len(seqIn)
             /\ \A i \in 1..Len(seqMid) : seqMid[i] \in 0..(alphabet - 1)
    /\ pc = "mtf-decoded" => seqOut = seqIn

\* A sequence that moves every symbol of the alphabet has been coded and
\* decoded.
MtfRoundTripWitness ==
    /\ pc = "mtf-decoded" /\ alphabet = 3
    /\ seqIn = <<2, 0, 2, 1>> /\ seqMid = <<2, 1, 1, 2>> /\ seqOut = seqIn

\* C12: symbolsToMtf(mtfToSymbols(m), |m|) equals m, also for sequences that
\* start or end with zero runs or are all zeros.
RunsRoundTrip == pc = "runs-decoded" => seqOut = seqIn

\* A sequence with a zero run of 5 (RUNA RUNB), a value and a trailing zero
\* run of 8 has been coded and decoded.
RunsRoundTripWitness ==
    /\ pc = "runs-decoded"
    /\ seqIn = <<0, 0, 0, 0, 0, 2, 0, 0, 0, 0, 0, 0, 0, 0>>
    /\ seqMid = <<0, 1, 3, 1, 0, 0>>
    /\ seqOut = seqIn

DictionarySorted ==
    pc = "assigned"
        => \A n \in 1..2 :
              LET dict == assigned[n].dictionary
                  ids == assigned[n].ids
              IN /\ \A i \in 1..Len(dict) : \A j \in (i + 1)..Len(dict) :
                        StrLess(dict[i], dict[j])
                 /\ Len(ids) = Len(streams[n])
                 /\ \A k \in 1..Len(ids) :
                        /\ ids[k] \in 1..Len(dict)
                        /\ ids[k] # SENTINEL_ID
                        /\ dict[ids[k]] = streams[n][k]
                 /\ \A i \in 1..Len(dict) : \E k \in 1..Len(ids) : ids[k] = i

\* A stream whose first-seen order is the reverse of the sorted order has
\* been given ids.
DictionarySortedWitness ==
    /\ pc = "assigned"
    /\ streams[1] = <<<<97, 98>>, <<97>>, TOKEN_WS_SPACE>>
    /\ assigned[1].dictionary = <<TOKEN_WS_SPACE, <<97>>, <<97, 98>>>>
    /\ assigned[1].ids = <<3, 2, 1>>

\* C15: two token streams with the same set of distinct tokens get the same
\* dictionary, and each token gets the same id in both.
IdsDependOnTokenSet ==
    (pc = "assigned"
     /\ {streams[1][i] : i \in 1..Len(streams[1])}
          = {streams[2][j] : j \in 1..Len(streams[2])})
        => /\ assigned[1].dictionary = assigned[2].dictionary
           /\ \A i \in 1..Len(streams[1]) : \A j \in 1..Len(streams[2]) :
                 streams[1][i] = streams[2][j]
                     => assigned[1].ids[i] = assigned[2].ids[j]

\* Two streams with the same tokens in different first-seen order and with
\* different multiplicities have been given ids.
IdsDependOnTokenSetWitness ==
    /\ pc = "assigned"
    /\ streams[1] = <<<<97, 98>>, <<97>>, <<97>>>>
    /\ streams[2] = <<<<97>>, <<97, 98>>>>
    /\ assigned[1].ids = <<2, 1, 1>> /\ assigned[2].ids = <<1, 2>>

\* C16: the concatenation of the tokens of tokenize(t), in order, equals t,
\* and no token is empty.
TokensCoverText ==
    pc \in {"tokenized", "normalized", "rendered"}
        => /\ Concat(rawTokens) = text
           /\ \A i \in 1..Len(rawTokens) : rawTokens[i] # <<>>

\* A text of a word, white space and a word has been split in three tokens.
TokensCoverTextWitness ==
    /\ pc = "tokenized" /\ text = <<97, ChSpace, 66>>
    /\ rawTokens = <<<<97>>, <<ChSpace>>, <<66>>>>

\* C17: renderTokens(normalizeTokens(tokenize(t))) equals t.
RenderRoundTrip == pc = "rendered" => (~rendered.thrown /\ rendered.text = text)

\* A text with an upper-case word and a run of two spaces, both replaced by
\* markers, has been rendered back.
RenderRoundTripWitness ==
    /\ pc = "rendered" /\ text = <<66, ChSpace, ChSpace>>
    /\ normTokens = <<TOKEN_CASE_UPPER, <<98>>, TOKEN_WS_SPACE, <<50>>>>
    /\ rendered = [thrown |-> FALSE, text |-> text]

\* C18 as stated: the dictionary of wbwtCompress("Hello HELLO hello\n") holds
\* exactly the five entries 0x1F c, 0x1F n, 0x1F u, "1" and "hello".
HelloDictionaryFive ==
    (pc # "text" /\ text = HelloText)
        => {payload.dictionary[i] : i \in 1..Len(payload.dictionary)}
             = {TOKEN_CASE_TITLE, TOKEN_WS_NEWLINE, TOKEN_CASE_UPPER, <<49>>,
                <<104, 101, 108, 108, 111>>}

\* C18: the dictionary of wbwtCompress("Hello HELLO hello\n") holds exactly
\* six entries: 0x1F c, 0x1F n, 0x1F s, 0x1F u, "1" and "hello", in this order.
HelloDictionarySix ==
    (pc # "text" /\ text = HelloText)
        => payload.dictionary
             = <<TOKEN_CASE_TITLE, TOKEN_WS_NEWLINE, TOKEN_WS_SPACE, TOKEN_CASE_UPPER,
                 <<49>>, <<104, 101, 108, 108, 111>>>>

\* "Hello HELLO hello\n" has been compressed: 11 tokens and the sentinel.
HelloDictionaryWitness ==
    /\ pc = "compressed" /\ text = HelloText
    /\ Len(payload.dictionary) = 6 /\ Len(payload.mtf) = 12

\* C19 as stated: the frame of "word word word word" is shorter than the 19
\* bytes of the text.
WordsFrameShorter ==
    (pc = "serialized" /\ origin = "v4" /\ text = WordsText) => Len(frame) < 19

\* C19: the frame of "word word word word" is 28 bytes long, 9 more than the
\* text: 12 bytes of header, 13 of dictionary, 3 of coded symbols.
WordsFrameLength ==
    (pc = "serialized" /\ origin = "v4" /\ text = WordsText)
        => /\ Len(frame) = 28
           /\ Len(FrameHeader(3, 8, payload.primaryIndex, Len(mtfToSymbols(payload.mtf))))
                = 12
           /\ Len(FrontCode(payload.dictionary, <<>>)) = 13

\* "word word word word" has been compressed and serialized.
WordsFrameWitness ==
    /\ pc = "serialized" /\ origin = "v4" /\ text = WordsText
    /\ payload.dictionary = <<TOKEN_WS_SPACE, <<49>>, <<119, 111, 114, 100>>>>
    /\ Len(frame) = 28

\* C20: a note read back from the hash buildBestHash built for it is the note,
\* whichever of the two payload formats was selected.
HashRoundTrip ==
    pc = "hash-decoded" => note = TextResult(text)

\* C21: every token of tokenize that contains a whitespace character is made
\* of one whitespace class only: only spaces, only newlines or only tabs.
WhitespaceTokensOneClass ==
    pc = "tokenized"
        => \A i \in 1..Len(rawTokens) :
              (\E k \in 1..Len(rawTokens[i]) : IsSpace(rawTokens[i][k]))
                  => \E c \in {ChSpace, ChNewline, ChTab} : AllOf(rawTokens[i], c)

RECURSIVE SeqSum(_)
\* The sum of the numbers of a sequence.
SeqSum(s) == IF s = <<>> THEN 0 ELSE Head(s) + SeqSum(Tail(s))

\* C22: after reset(1) and any add(i, 1) and rescale() calls every frequency
\* is at least 1, total is the sum of the frequencies, and sum(i) is the sum
\* of the first i frequencies, for every i from 0 to the size.
FenwickConsistent ==
    pc \in {"model", "found"}
        => /\ \A i \in 1..fenwick.size : fenwick.freq[i] >= 1
           /\ fenwick.total = SeqSum(fenwick.freq)
           /\ \A i \in 0..fenwick.size :
                 FenwickSum(fenwick, i) = SeqSum(SubSeq(fenwick.freq, 1, i))

\* A rescale has halved the frequencies 3, 1, 2 to 2, 1, 1.
FenwickConsistentWitness ==
    /\ pc = "model" /\ lookup = <<"rescale">>
    /\ fenwick.freq = <<2, 1, 1>> /\ fenwick.total = 4
    /\ fenwick.tree = <<2, 3, 1>>

\* C24: for every v below the total, findByCumulative(v) is the smallest
\* index i from 1 to the size with sum(i) > v.
FindsSmallestIndex ==
    (pc = "found" /\ lookup[1] = "find")
        => LET v == lookup[2]
               i == lookup[3]
           IN /\ i \in 1..fenwick.size
              /\ FenwickSum(fenwick, i) > v
              /\ \A j \in 1..(i - 1) : FenwickSum(fenwick, j) <= v

\* In a tree of size 5 with the frequencies 1, 1, 1, 3, 2 the value 6 has
\* been found at index 5, the one past the largest power of two.
FindsSmallestIndexWitness ==
    /\ pc = "found" /\ fenwick.freq = <<1, 1, 1, 3, 2>>
    /\ lookup = <<"find", 6, 5>>

\* C29: after every completed encodeSymbol call 0 <= low < HALF <= high <= TOP
\* and high - low + 1 > FIRST_QTR; after every completed decodeSymbol call the
\* same holds of the decoder, and low <= value <= high.
CoderIntervalBounds ==
    LET inBounds(c) ==
            /\ U32Less(c.low, ENTROPY_HALF)
            /\ ~U32Less(c.high, ENTROPY_HALF)
            /\ ~U32Less(ENTROPY_TOP_VALUE, c.high)
            /\ c.low[1] \in 0..(Limb - 1) /\ c.low[2] \in 0..(Limb - 1)
            /\ c.high[1] \in 0..(Limb - 1) /\ c.high[2] \in 0..(Limb - 1)
            /\ ~U32Less(U32Sub(c.high, c.low), ENTROPY_FIRST_QTR)
    IN /\ (pc \in {"coding", "decoding"} /\ encoder.count > 0) => inBounds(encoder.coder)
       /\ (pc = "decoding" /\ decoder.count > 0)
              => /\ inBounds(decoder.coder)
                 /\ ~U32Less(decoder.coder.value, decoder.coder.low)
                 /\ ~U32Less(decoder.coder.high, decoder.coder.value)

\* C23: at every call of encodeSymbol and of decodeSymbol the total of the
\* model is below ENTROPY_MAX_TOTAL, for every alphabet size up to 2^16.
TotalBelowMax ==
    /\ (pc = "coding" /\ encoder.count < Len(seqIn))
          => encoder.model.total < ENTROPY_MAX_TOTAL
    /\ (pc = "decoding" /\ decoder.count < Len(seqIn))
          => decoder.model.total < ENTROPY_MAX_TOTAL

CoderIntervalBoundsWitness ==
    /\ pc = "decoding" /\ alphabet = 2 /\ seqIn = <<0, 0>>
    /\ encoder.count = 2 /\ Len(encoder.coder.bits) > 0
    /\ decoder.count = 1 /\ seqOut = <<0>>
    /\ U32Less(<<0, 0>>, decoder.coder.value)

RECURSIVE RunLengths(_, _, _)
\* The lengths of the maximal runs of elements <= limit in s, in order; run
\* is the length of the run that ends before s.
RunLengths(s, limit, run) ==
    IF s = <<>> THEN (IF run > 0 THEN <<run>> ELSE <<>>)
    ELSE IF Head(s) <= limit THEN RunLengths(Tail(s), limit, run + 1)
    ELSE (IF run > 0 THEN <<run>> ELSE <<>>) \o RunLengths(Tail(s), limit, 0)

RECURSIVE FloorLog2(_)
\* floor(log2(n)) for n >= 1.
FloorLog2(n) == IF n <= 1 THEN 0 ELSE 1 + FloorLog2(n \div 2)

\* ceil(log2(n)) for n >= 1.
CeilLog2(n) == IF n <= 1 THEN 0 ELSE 1 + FloorLog2(n - 1)

\* C26 as stated: mtfToSymbols emits exactly ceil(log2(r + 1)) symbols, each 0
\* or 1, for every maximal zero run of length r.
RunSymbolsCeilLog ==
    pc = "runs-coded"
        => LET runs == RunLengths(seqIn, 0, 0)
               groups == RunLengths(seqMid, 1, 0)
           IN /\ Len(groups) = Len(runs)
              /\ \A i \in 1..Len(runs) : groups[i] = CeilLog2(runs[i] + 1)

\* C26, amended: mtfToSymbols emits exactly floor(log2(r + 1)) symbols, each 0
\* or 1, for every maximal zero run of length r: the digits of r in
\* bijective base 2.
RunSymbolsFloorLog ==
    pc = "runs-coded"
        => LET runs == RunLengths(seqIn, 0, 0)
               groups == RunLengths(seqMid, 1, 0)
           IN /\ Len(groups) = Len(runs)
              /\ \A i \in 1..Len(runs) : groups[i] = FloorLog2(runs[i] + 1)

\* Zero runs of 2 and of 8 around a value have been coded in 1 and in 3
\* symbols (ceil(log2) would be 2 and 4).
RunSymbolsWitness ==
    /\ pc = "runs-coded"
    /\ seqIn = <<0, 0, 3, 0, 0, 0, 0, 0, 0, 0, 0>>
    /\ seqMid = <<1, 4, 1, 0, 0>>

\* C27: for an id array x of length n >= 2 that ends in the only sentinel,
\* the last column L has, in the row of each rotation in sorted order, the
\* id before the start of that rotation; L is a permutation of x; and
\* primaryIndex, in [0, n), is the row of the rotation that starts at 0.
BwtLastColumn ==
    (pc = "transformed" /\ Len(bwtIn) >= 2)
        => LET n == Len(bwtIn)
               rotation(k) == [i \in 1..n |-> bwtIn[((k + i - 1) % n) + 1]]
               row(k) == Cardinality({j \in 0..(n - 1) : StrLess(rotation(j), rotation(k))})
               count(s, v) == Cardinality({i \in 1..Len(s) : s[i] = v})
           IN /\ Len(bwtOut.lastColumn) = n
              /\ \A k \in 0..(n - 1) :
                    bwtOut.lastColumn[row(k) + 1] = bwtIn[((k + n - 1) % n) + 1]
              /\ \A v \in 0..BwtAlphabet :
                    count(bwtOut.lastColumn, v) = count(bwtIn, v)
              /\ bwtOut.primaryIndex \in 0..(n - 1)
              /\ bwtOut.primaryIndex = row(0)

\* The ids 2, 1, 2 with the sentinel have been transformed: the rotations
\* sorted start at 3, 1, 2, 0, and the original is the last row.
BwtLastColumnWitness ==
    /\ pc = "transformed" /\ bwtIn = <<2, 1, 2, 0>>
    /\ bwtOut = [lastColumn |-> <<2, 2, 1, 0>>, primaryIndex |-> 3]

\* C28: deserializeWBWT ends on every byte buffer, with a payload or with an
\* error thrown, also on a version 2 or 3 frame whose packed MTF stream ends
\* before tokenCount values have been produced.
DeserializeTerminates ==
    pc = "deserialized" => decoded.status \in {"ok", "error"}

\* C30: at most one save timer is pending, the one set by the most recent
\* triggerSave; saveToHash runs only when DEBOUNCE_MS have passed since the
\* most recent triggerSave, and it writes the hash of the text that textRef
\* holds when it runs.  A step in which a timer leaves the pending set while
\* debounceRef and pc stay is a run of the timer's callback.
DebouncedSave ==
    [][ /\ Cardinality(timers') <= 1
        /\ \A t \in timers' : t.id = debounceRef' /\ t.due = triggeredAt' + DEBOUNCE_MS
        /\ (timers' # timers /\ debounceRef' = debounceRef /\ pc' = pc)
              => /\ clock >= triggeredAt + DEBOUNCE_MS
                 /\ locationHash' = buildBestHash(textRef) ]_vars

\* triggerSave has been called more than once, the text is "aB", the one
\* timer has run after the delay and the hash is the hash of that text.
DebouncedSaveWitness ==
    /\ pc = "mounted" /\ debounceRef >= 2 /\ timers = {}
    /\ textRef = <<97, 66>> /\ clock >= triggeredAt + DEBOUNCE_MS
    /\ triggeredAt > 0
    /\ locationHash = buildBestHash(textRef)

====
